---- MODULE Spec2Model ----
(***************************************************************************)
(* Model of the inbound pipeline of src/src/Socket/messages-recv.ts        *)
(* (makeMessagesRecvSocket): the handlers of the message, receipt,         *)
(* notification and call stanzas, the retry requester, the keyed and the   *)
(* plain mutex and the history-sync gate.  Every asynchronous function is  *)
(* cut at its awaits: one action per stretch of code that runs without     *)
(* suspension.                                                             *)
(***************************************************************************)
EXTENDS Integers, Sequences, FiniteSets, TLC

VARIABLES
    wsOpen,         \* ws.readyState === ws.OPEN
    cfgDelay,       \* config.retryRequestDelayMs is set
    stanzas,        \* the inbound stanzas, in arrival order
    pc,             \* pc[i]: where the handler of stanza i stands
    dec,            \* dec[i]: the decryptionTask of message stanza i
    procQ,          \* processingMutex: per key, the tasks not yet finished
    retryQ,         \* retryMutex: the retry tasks not yet finished
    rpc,            \* rpc[i]: where the retry task of message stanza i stands
    rcount,         \* rcount[i]: msgRetryMap[id] as read by sendRetryRequest
    msgRetryMap,    \* id -> count, 0 for no entry
    postQ,          \* processingMutex under the keys 'p-' + chat
    ppc,            \* ppc[i]: where the messages.upsert subscriber stands
    msgs,           \* msgs[i]: the ids config.getMessage had a message for
    timer,          \* appStateSyncTimeout: seconds left, -1 when not armed
    quiet,          \* seconds since appStateSyncTimeout was last started
    syncing,        \* the chats of the resyncMainAppState call in flight
    historyCache,
    recvChats,
    callOfferData,
    sendActiveReceipts,
    updates,        \* the connection.update events received, in order
    sending,        \* the sendMessage call of the outbound API, and what it called
    fx,             \* fx[i]: what the socket sent and emitted for stanza i, in order
    sockFx          \* what the socket did on its own account, in order

intakeVars == <<stanzas, pc, dec, procQ>>
retryVars == <<retryQ, rpc, rcount>>
postVars == <<postQ, ppc>>
histVars == <<timer, quiet, syncing, historyCache, recvChats>>
auxVars == <<callOfferData, sendActiveReceipts, updates, sending>>
outVars == <<fx, sockFx>>

vars == <<wsOpen, cfgDelay, intakeVars, retryVars, msgRetryMap, postVars, msgs,
          histVars, auxVars, outVars>>

----------------------------------------------------------------------------
(* Bounds of the model *)

MaxStanzas == 2
MaxUpdates == 2

none == "none"
Me == "me"
Ids == {"A", "B"}
Chats == {"alice", "grp"}

(* what config.msgRetryCounterMap may hold when the socket is made: a     *)
(* counter left for id "A" by an earlier run of the socket, or nothing    *)
InitCounts == {0, 4, 5}
InitMaps == {[id \in Ids |-> IF id = "A" THEN c ELSE 0] : c \in InitCounts}

----------------------------------------------------------------------------
(* WABinary helpers, at the granularity of users *)

isJidGroup(jid) == jid = "grp"

areJidsSameUser(a, b) == a = b

(* proto.WebMessageInfo.WebMessageInfoStatus *)
DELIVERY_ACK == 3
READ == 4
PLAYED == 5

(* the quiet period of appStateSyncTimeout, in seconds *)
SyncQuietSeconds == 6

(* Defaults: MIN_PREKEY_COUNT *)
MIN_PREKEY_COUNT == 5

(* the retry limit of sendRetryRequest and willSendMessageAgain *)
RetryLimit == 5

----------------------------------------------------------------------------
(* Inbound stanzas *)

(* the attributes and the content of a stanza the handlers read; a field \*
   that is none is absent *)
Blank ==
    [tag |-> none, id |-> none, from |-> none, participant |-> none,
     recipient |-> none, type |-> none, offline |-> FALSE, category |-> none,
     fromMe |-> FALSE, hist |-> FALSE, items |-> <<>>, child |-> none,
     value |-> 0, callId |-> none, video |-> FALSE, group |-> FALSE]

(* decodeMessageStanza: the key of the decoded message *)
MsgRemoteJid(s) == IF s.recipient # none THEN s.recipient ELSE s.from

N == Len(stanzas)
Tasks == 1..N

Update(f, i, v) == [f EXCEPT ![i] = v]

(* an emission of the socket: a stanza sent, a primitive called, an event *)
Fx(kind, arg) == [kind |-> kind, arg |-> arg]

(* the emission is attributed to stanza i *)
Say(i, e) == fx' = [fx EXCEPT ![i] = Append(@, e)]

(* the emission belongs to no stanza *)
SockSay(e) == sockFx' = Append(sockFx, e)

Positions(i, kind) == {k \in 1..Len(fx[i]) : fx[i][k].kind = kind}

Count(i, kind) == Cardinality(Positions(i, kind))

----------------------------------------------------------------------------
(* makeMutex / makeKeyedMutex: a task runs when every task queued before   *)
(* it under the same key has finished                                      *)

MutexHolds(q, i) == q # <<>> /\ Head(q) = i

MutexEnter(q, i) == Append(q, i)

MutexLeave(q) == Tail(q)

----------------------------------------------------------------------------
(* the content object of an outbound message before prepareMediaMessage   *)
(* has filled it                                                           *)
NoContent == [mimetype |-> none, gifPlayback |-> FALSE, url |-> FALSE]

----------------------------------------------------------------------------
(* the socket as makeMessagesRecvSocket returns it, for a config with     *)
(* retryRequestDelayMs among delays and msgRetryCounterMap among maps      *)
InitWith(delays, maps) ==
    /\ wsOpen = TRUE
    /\ cfgDelay \in delays
    /\ stanzas = <<>>
    /\ pc = <<>>
    /\ dec = <<>>
    /\ procQ = [k \in Chats |-> <<>>]
    /\ retryQ = <<>>
    /\ rpc = <<>>
    /\ rcount = <<>>
    /\ msgRetryMap \in maps
    /\ postQ = [k \in Chats |-> <<>>]
    /\ ppc = <<>>
    /\ msgs = <<>>
    /\ timer = -1
    /\ quiet = 0
    /\ syncing = 0
    /\ historyCache = {}
    /\ recvChats = {}
    /\ callOfferData = {}
    /\ sendActiveReceipts = FALSE
    /\ updates = <<>>
    /\ sending = [pc |-> "idle", type |-> none, message |-> none, mimetype |-> none,
                  caption |-> FALSE, content |-> NoContent, calls |-> <<>>,
                  error |-> none]
    /\ fx = <<>>
    /\ sockFx = <<>>

(* a stanza arrives: its handler stands at `at`, first is what the handler \*
   emitted before its first await *)
Arrive(s, at, decryption, post, first) ==
    /\ stanzas' = Append(stanzas, s)
    /\ pc' = Append(pc, at)
    /\ dec' = Append(dec, decryption)
    /\ rpc' = Append(rpc, "none")
    /\ rcount' = Append(rcount, 0)
    /\ ppc' = Append(ppc, post)
    /\ msgs' = Append(msgs, [avail |-> {}, k |-> 0])
    /\ fx' = Append(fx, first)

----------------------------------------------------------------------------
(* sendMessageAck *)

AckFor(s, extraType) ==
    Fx("ack",
             [id |-> s.id, class |-> s.tag, to |-> s.from, participant |-> s.participant,
              type |-> IF extraType # none THEN extraType
                       ELSE IF s.tag # "message" /\ s.type # none THEN s.type
                       ELSE none])

sendMessageAck(i, extraType) == AckFor(stanzas[i], extraType)

----------------------------------------------------------------------------
(* ev.emit('messages.upsert') of message stanza i, and its subscriber      *)
(* handleUpsertedMessages up to processingMutex.mutex('p-' + chat)         *)

(* UpsertType when the offline attribute is not looked at *)
UpsertTypeNotify(s) == "notify"

UpsertType(s) == IF s.offline THEN "append" ELSE "notify"

EmitUpsert(i) ==
    /\ Say(i, Fx("messages.upsert", UpsertType(stanzas[i])))
    /\ postQ' = [postQ EXCEPT ![MsgRemoteJid(stanzas[i])] = MutexEnter(@, i)]
    /\ ppc' = Update(ppc, i, "queued")

----------------------------------------------------------------------------
(* ws.on('CB:message') *)

(* RecvMessage when every stanza is queued under one key of the mutex *)
RecvMessageOneKey(s) ==
    /\ Arrive(s, "queued", "pending", "none", <<>>)
    /\ procQ' = [procQ EXCEPT !["alice"] = MutexEnter(@, N + 1)]
    /\ UNCHANGED <<wsOpen, cfgDelay, retryQ, msgRetryMap, postQ, histVars, auxVars, sockFx>>

(* the stanza is decoded and its task queued under msg.key.remoteJid *)
RecvMessage(s) ==
    /\ Arrive(s, "queued", "pending", "none", <<>>)
    /\ procQ' = [procQ EXCEPT ![MsgRemoteJid(s)] = MutexEnter(@, N + 1)]
    /\ UNCHANGED <<wsOpen, cfgDelay, retryQ, msgRetryMap, postQ, histVars, auxVars, sockFx>>

(* the decryptionTask of decodeMessageStanza settles: ok, or the message   *)
(* keeps messageStubType CIPHERTEXT                                        *)
DecryptResolve(i, result) ==
    /\ dec[i] = "pending"
    /\ dec' = Update(dec, i, result)
    /\ UNCHANGED <<wsOpen, cfgDelay, stanzas, pc, procQ, retryVars, msgRetryMap,
                   postVars, msgs, histVars, auxVars, outVars>>

(* MsgAck when the keyed mutex lets a task run beside the one holding it *)
MsgAckUnlocked(i) ==
    /\ stanzas[i].tag = "message"
    /\ pc[i] = "queued"
    /\ Say(i, sendMessageAck(i, none))
    /\ pc' = Update(pc, i, "decrypt")
    /\ UNCHANGED <<wsOpen, cfgDelay, stanzas, dec, procQ, retryVars, msgRetryMap,
                   postVars, msgs, histVars, auxVars, sockFx>>

(* MsgAck when the handler awaits the decryption without having acked *)
MsgAckMissing(i) ==
    /\ stanzas[i].tag = "message"
    /\ pc[i] = "queued"
    /\ MutexHolds(procQ[MsgRemoteJid(stanzas[i])], i)
    /\ pc' = Update(pc, i, "decrypt")
    /\ UNCHANGED <<wsOpen, cfgDelay, stanzas, dec, procQ, retryVars, msgRetryMap,
                   postVars, msgs, histVars, auxVars, outVars>>

(* the task gets the mutex of its chat: await sendMessageAck(stanza) *)
MsgAck(i) ==
    /\ stanzas[i].tag = "message"
    /\ pc[i] = "queued"
    /\ MutexHolds(procQ[MsgRemoteJid(stanzas[i])], i)
    /\ Say(i, sendMessageAck(i, none))
    /\ pc' = Update(pc, i, "decrypt")
    /\ UNCHANGED <<wsOpen, cfgDelay, stanzas, dec, procQ, retryVars, msgRetryMap,
                   postVars, msgs, histVars, auxVars, sockFx>>

(* MsgFailed when the handler falls through to the delivery receipt of a   *)
(* decrypted message                                                       *)
MsgFailedReceipted(i) ==
    /\ pc[i] = "decrypt"
    /\ dec[i] = "fail"
    /\ retryQ' = MutexEnter(retryQ, i)
    /\ rpc' = Update(rpc, i, "queued")
    /\ fx' = Update(fx, i, fx[i] \o <<Fx("sendReceipt", none),
                                      Fx("messages.upsert", UpsertType(stanzas[i]))>>)
    /\ postQ' = [postQ EXCEPT ![MsgRemoteJid(stanzas[i])] = MutexEnter(@, i)]
    /\ ppc' = Update(ppc, i, "queued")
    /\ pc' = Update(pc, i, "done")
    /\ procQ' = [procQ EXCEPT ![MsgRemoteJid(stanzas[i])] = MutexLeave(@)]
    /\ UNCHANGED <<wsOpen, cfgDelay, stanzas, dec, rcount, msgRetryMap, msgs,
                   histVars, auxVars, sockFx>>

(* after await decryptionTask, messageStubType CIPHERTEXT: the retry is    *)
(* handed to retryMutex and not awaited; cleanMessage, messages.upsert     *)
MsgFailed(i) ==
    /\ pc[i] = "decrypt"
    /\ dec[i] = "fail"
    /\ retryQ' = MutexEnter(retryQ, i)
    /\ rpc' = Update(rpc, i, "queued")
    /\ EmitUpsert(i)
    /\ pc' = Update(pc, i, "done")
    /\ procQ' = [procQ EXCEPT ![MsgRemoteJid(stanzas[i])] = MutexLeave(@)]
    /\ UNCHANGED <<wsOpen, cfgDelay, stanzas, dec, rcount, msgRetryMap, msgs,
                   histVars, auxVars, sockFx>>

ReceiptType(s) ==
    IF s.category = "peer" THEN "peer_msg"
    ELSE IF s.fromMe THEN "sender"
    ELSE IF ~sendActiveReceipts THEN "inactive"
    ELSE none

(* after await decryptionTask, decrypted: await sendReceipt(...) *)
MsgReceipt(i) ==
    /\ pc[i] = "decrypt"
    /\ dec[i] = "ok"
    /\ Say(i, Fx("sendReceipt", ReceiptType(stanzas[i])))
    /\ pc' = Update(pc, i, "receipt")
    /\ UNCHANGED <<wsOpen, cfgDelay, stanzas, dec, procQ, retryVars, msgRetryMap,
                   postVars, msgs, histVars, auxVars, sockFx>>

(* MsgUpsert when the counter of the id is cleared once the message is     *)
(* decrypted                                                               *)
MsgUpsertClears(i) ==
    /\ pc[i] = "receipt"
    /\ EmitUpsert(i)
    /\ pc' = Update(pc, i, "done")
    /\ procQ' = [procQ EXCEPT ![MsgRemoteJid(stanzas[i])] = MutexLeave(@)]
    /\ msgRetryMap' = [msgRetryMap EXCEPT ![stanzas[i].id] = 0]
    /\ UNCHANGED <<wsOpen, cfgDelay, stanzas, dec, retryVars, msgs,
                   histVars, auxVars, sockFx>>

(* MsgUpsert when the emit is awaited and the subscriber is queued under   *)
(* the key of the chat, which the handler holds while it waits             *)
MsgUpsertSameKey(i) ==
    /\ pc[i] = "receipt"
    /\ Say(i, Fx("messages.upsert", UpsertType(stanzas[i])))
    /\ ppc' = Update(ppc, i, "queued")
    /\ pc' = Update(pc, i, "upsert")
    /\ procQ' = [procQ EXCEPT ![MsgRemoteJid(stanzas[i])] = MutexEnter(@, i)]
    /\ UNCHANGED <<wsOpen, cfgDelay, stanzas, dec, retryVars, msgRetryMap, postQ, msgs,
                   histVars, auxVars, sockFx>>

(* sendReceipt returned: cleanMessage, messages.upsert *)
MsgUpsert(i) ==
    /\ pc[i] = "receipt"
    /\ EmitUpsert(i)
    /\ pc' = Update(pc, i, "done")
    /\ procQ' = [procQ EXCEPT ![MsgRemoteJid(stanzas[i])] = MutexLeave(@)]
    /\ UNCHANGED <<wsOpen, cfgDelay, stanzas, dec, retryVars, msgRetryMap, msgs,
                   histVars, auxVars, sockFx>>

----------------------------------------------------------------------------
(* the task handed to retryMutex, and sendRetryRequest *)

RetryLeave(i, at) ==
    /\ rpc' = Update(rpc, i, at)
    /\ retryQ' = MutexLeave(retryQ)

(* RetryReturn when the delay is awaited outside the retry mutex *)
RetryReturnEarly(i) ==
    IF cfgDelay
    THEN rpc' = Update(rpc, i, "delay") /\ retryQ' = MutexLeave(retryQ)
    ELSE RetryLeave(i, "done")

(* sendRetryRequest returned: await delay(retryRequestDelayMs) if set *)
RetryReturn(i) ==
    IF cfgDelay
    THEN rpc' = Update(rpc, i, "delay") /\ retryQ' = retryQ
    ELSE RetryLeave(i, "done")

(* ws.readyState is not OPEN: 'connection closed, ignoring retry req' *)
RetryClosed(i) ==
    /\ rpc[i] = "queued"
    /\ MutexHolds(retryQ, i)
    /\ ~wsOpen
    /\ RetryLeave(i, "ignored")
    /\ UNCHANGED <<wsOpen, cfgDelay, intakeVars, rcount, msgRetryMap, postVars, msgs,
                   histVars, auxVars, outVars>>

retryCountOf(id) == IF msgRetryMap[id] = 0 THEN 1 ELSE msgRetryMap[id]

(* sendRetryRequest, retryCount >= 5: 'reached retry limit, clearing' *)
RetryCapped(i) ==
    /\ rpc[i] = "queued"
    /\ MutexHolds(retryQ, i)
    /\ wsOpen
    /\ retryCountOf(stanzas[i].id) >= RetryLimit
    /\ rcount' = Update(rcount, i, retryCountOf(stanzas[i].id))
    /\ msgRetryMap' = [msgRetryMap EXCEPT ![stanzas[i].id] = 0]
    /\ RetryReturn(i)
    /\ UNCHANGED <<wsOpen, cfgDelay, intakeVars, postVars, msgs, histVars, auxVars, outVars>>

(* RetryBegin when sendRetryRequest is started beside the retry mutex *)
RetryBeginUnlocked(i) ==
    /\ rpc[i] = "queued"
    /\ retryQ # <<>>
    /\ wsOpen
    /\ retryCountOf(stanzas[i].id) < RetryLimit
    /\ rcount' = Update(rcount, i, retryCountOf(stanzas[i].id))
    /\ msgRetryMap' = [msgRetryMap EXCEPT ![stanzas[i].id] = retryCountOf(stanzas[i].id) + 1]
    /\ rpc' = Update(rpc, i, "tx")
    /\ UNCHANGED <<wsOpen, cfgDelay, intakeVars, retryQ, postVars, msgs, histVars,
                   auxVars, outVars>>

(* RetryBegin when the limit is compared with > in place of >= *)
RetryBeginOffByOne(i) ==
    /\ rpc[i] = "queued"
    /\ MutexHolds(retryQ, i)
    /\ wsOpen
    /\ retryCountOf(stanzas[i].id) <= RetryLimit
    /\ rcount' = Update(rcount, i, retryCountOf(stanzas[i].id))
    /\ msgRetryMap' = [msgRetryMap EXCEPT ![stanzas[i].id] = retryCountOf(stanzas[i].id) + 1]
    /\ rpc' = Update(rpc, i, "tx")
    /\ UNCHANGED <<wsOpen, cfgDelay, intakeVars, retryQ, postVars, msgs, histVars,
                   auxVars, outVars>>

(* RetryBegin when the counter is not bumped *)
RetryBeginNoBump(i) ==
    /\ rpc[i] = "queued"
    /\ MutexHolds(retryQ, i)
    /\ wsOpen
    /\ retryCountOf(stanzas[i].id) < RetryLimit
    /\ rcount' = Update(rcount, i, retryCountOf(stanzas[i].id))
    /\ rpc' = Update(rpc, i, "tx")
    /\ UNCHANGED <<wsOpen, cfgDelay, intakeVars, retryQ, msgRetryMap, postVars, msgs,
                   histVars, auxVars, outVars>>

(* sendRetryRequest, below the limit: the counter is bumped and the        *)
(* key-store transaction is opened (await getNextPreKeys)                  *)
RetryBegin(i) ==
    /\ rpc[i] = "queued"
    /\ MutexHolds(retryQ, i)
    /\ wsOpen
    /\ retryCountOf(stanzas[i].id) < RetryLimit
    /\ rcount' = Update(rcount, i, retryCountOf(stanzas[i].id))
    /\ msgRetryMap' = [msgRetryMap EXCEPT ![stanzas[i].id] = retryCountOf(stanzas[i].id) + 1]
    /\ rpc' = Update(rpc, i, "tx")
    /\ UNCHANGED <<wsOpen, cfgDelay, intakeVars, retryQ, postVars, msgs, histVars,
                   auxVars, outVars>>

(* RetryReceipt when the keys bundle is attached whatever the count *)
RetryReceiptAlwaysKeys(i) ==
    Fx("retry", [id |-> stanzas[i].id, count |-> rcount[i], keys |-> rcount[i] >= 1])

(* the receipt node built in the transaction: count is the retryCount read *)
(* before the increment, the keys bundle is pushed if retryCount > 1       *)
RetryReceipt(i) ==
    Fx("retry", [id |-> stanzas[i].id, count |-> rcount[i], keys |-> rcount[i] > 1])

(* in the transaction: await sendNode(receipt) *)
RetrySend(i) ==
    /\ rpc[i] = "tx"
    /\ Say(i, RetryReceipt(i))
    /\ rpc' = Update(rpc, i, "sent")
    /\ UNCHANGED <<wsOpen, cfgDelay, intakeVars, retryQ, rcount, msgRetryMap, postVars,
                   msgs, histVars, auxVars, sockFx>>

(* sendNode returned: 'sent retry receipt' is logged, creds.update is      *)
(* emitted, the transaction ends                                           *)
RetryCommit(i) ==
    /\ rpc[i] = "sent"
    /\ fx' = Update(fx, i, fx[i] \o <<Fx("logger.info", "sent retry receipt"),
                                      Fx("creds.update", none)>>)
    /\ RetryReturn(i)
    /\ UNCHANGED <<wsOpen, cfgDelay, intakeVars, rcount, msgRetryMap, postVars, msgs,
                   histVars, auxVars, sockFx>>

(* RetryThrow when the error of the transaction is reported through       *)
(* onUnexpectedError in place of the log of the retry task                 *)
RetryThrowUnexpected(i) ==
    /\ rpc[i] \in {"tx", "sent"}
    /\ Say(i, Fx("onUnexpectedError", "processing message"))
    /\ RetryLeave(i, "failed")
    /\ UNCHANGED <<wsOpen, cfgDelay, intakeVars, rcount, msgRetryMap, postVars, msgs,
                   histVars, auxVars, sockFx>>

(* getNextPreKeys or sendNode throws in the transaction: the .catch of the *)
(* retry task logs 'error when retrying request'                           *)
RetryThrow(i) ==
    /\ rpc[i] \in {"tx", "sent"}
    /\ Say(i, Fx("logger.error", "error when retrying request"))
    /\ RetryLeave(i, "failed")
    /\ UNCHANGED <<wsOpen, cfgDelay, intakeVars, rcount, msgRetryMap, postVars, msgs,
                   histVars, auxVars, sockFx>>

(* delay(retryRequestDelayMs) is over *)
RetryDelayed(i) ==
    /\ rpc[i] = "delay"
    /\ RetryLeave(i, "done")
    /\ UNCHANGED <<wsOpen, cfgDelay, intakeVars, rcount, msgRetryMap, postVars, msgs,
                   histVars, auxVars, outVars>>

----------------------------------------------------------------------------
(* handleReceipt *)

(* getStatusFromReceiptType: 0 stands for undefined *)
getStatusFromReceiptType(type) ==
    IF type = none THEN DELIVERY_ACK
    ELSE IF type \in {"read", "read-self"} THEN READ
    ELSE IF type = "played" THEN PLAYED
    ELSE 0

isNodeFromMe(s) ==
    areJidsSameUser(IF s.participant # none THEN s.participant ELSE s.from, Me)

ReceiptRemoteJid(s) ==
    IF ~isNodeFromMe(s) \/ isJidGroup(s.from) THEN s.from ELSE s.recipient

ReceiptFromMe(s) == s.recipient = none \/ (s.type = "retry" /\ isNodeFromMe(s))

ReceiptIds(s) == <<s.id>> \o s.items

(* the key the receipt is about, id left out *)
ReceiptKey(s) ==
    [remoteJid |-> ReceiptRemoteJid(s), fromMe |-> ReceiptFromMe(s),
     participant |-> s.participant]

RecvReceipt(s) ==
    /\ Arrive(s, "queued", "na", "none", <<>>)
    /\ procQ' = [procQ EXCEPT ![ReceiptRemoteJid(s)] = MutexEnter(@, N + 1)]
    /\ UNCHANGED <<wsOpen, cfgDelay, retryQ, msgRetryMap, postQ, histVars, auxVars, sockFx>>

(* the event of lines 370-402, if any, after what stanza i emitted so far *)
StatusUpdate(i) ==
    LET s == stanzas[i]
        status == getStatusFromReceiptType(s.type)
    IN  IF status # 0 /\ (status > DELIVERY_ACK \/ ~isNodeFromMe(s))
        THEN IF isJidGroup(ReceiptRemoteJid(s))
             THEN Append(fx[i], Fx("message-receipt.update",
                      [key |-> ReceiptKey(s), ids |-> ReceiptIds(s),
                       field |-> IF status = DELIVERY_ACK THEN "receiptTimestamp"
                                 ELSE "readTimestamp"]))
             ELSE Append(fx[i], Fx("messages.update",
                      [key |-> ReceiptKey(s), ids |-> ReceiptIds(s), status |-> status]))
        ELSE fx[i]

willSendMessageAgain(id) == msgRetryMap[id] < RetryLimit

(* the receipt asks for a resend that handleReceipt answers *)
WillResend(s) ==
    s.type = "retry" /\ willSendMessageAgain(ReceiptIds(s)[1]) /\ ReceiptFromMe(s)

ReceiptLeave(i) ==
    /\ pc' = Update(pc, i, "done")
    /\ procQ' = [procQ EXCEPT ![ReceiptRemoteJid(stanzas[i])] = MutexLeave(@)]

(* the task gets the mutex of its chat; no resend: the update is emitted   *)
(* and the receipt is acked                                                *)
ReceiptRun(i) ==
    /\ stanzas[i].tag = "receipt"
    /\ pc[i] = "queued"
    /\ MutexHolds(procQ[ReceiptRemoteJid(stanzas[i])], i)
    /\ ~WillResend(stanzas[i])
    /\ fx' = Update(fx, i, Append(StatusUpdate(i), sendMessageAck(i, none)))
    /\ ReceiptLeave(i)
    /\ UNCHANGED <<wsOpen, cfgDelay, stanzas, dec, retryVars, msgRetryMap, postVars,
                   msgs, histVars, auxVars, sockFx>>

(* the task gets the mutex of its chat; a resend: sendMessagesAgain up to  *)
(* await Promise.all(ids.map(getMessage))                                  *)
ReceiptResend(i) ==
    /\ stanzas[i].tag = "receipt"
    /\ pc[i] = "queued"
    /\ MutexHolds(procQ[ReceiptRemoteJid(stanzas[i])], i)
    /\ WillResend(stanzas[i])
    /\ fx' = Update(fx, i, StatusUpdate(i))
    /\ pc' = Update(pc, i, "getMessage")
    /\ UNCHANGED <<wsOpen, cfgDelay, stanzas, dec, procQ, retryVars, msgRetryMap,
                   postVars, msgs, histVars, auxVars, sockFx>>

ResendParticipant(s) == IF s.participant # none THEN s.participant ELSE s.from

(* config.getMessage answered for every id, with a message for the ids of  *)
(* avail: await assertSessions([participant], true)                        *)
ResendFetched(i, avail) ==
    /\ pc[i] = "getMessage"
    /\ avail \subseteq {ReceiptIds(stanzas[i])[k] : k \in 1..Len(ReceiptIds(stanzas[i]))}
    /\ msgs' = Update(msgs, i, [avail |-> avail, k |-> 1])
    /\ Say(i, Fx("assertSessions", [jid |-> ResendParticipant(stanzas[i]), force |-> TRUE]))
    /\ pc' = Update(pc, i, "assertSessions")
    /\ UNCHANGED <<wsOpen, cfgDelay, stanzas, dec, procQ, retryVars, msgRetryMap,
                   postVars, histVars, auxVars, sockFx>>

(* assertSessions returned; for a group the sender-key memory is reset    *)
(* (await authState.keys.set), otherwise the loop starts                   *)
ResendAsserted(i) ==
    /\ pc[i] = "assertSessions"
    /\ IF isJidGroup(ReceiptRemoteJid(stanzas[i]))
       THEN /\ Say(i, Fx("keys.set", "sender-key-memory"))
            /\ pc' = Update(pc, i, "keys.set")
       ELSE /\ UNCHANGED fx
            /\ pc' = Update(pc, i, "loop")
    /\ UNCHANGED <<wsOpen, cfgDelay, stanzas, dec, procQ, retryVars, msgRetryMap,
                   postVars, msgs, histVars, auxVars, sockFx>>

(* authState.keys.set returned *)
ResendKeysSet(i) ==
    /\ pc[i] = "keys.set"
    /\ pc' = Update(pc, i, "loop")
    /\ UNCHANGED <<wsOpen, cfgDelay, stanzas, dec, procQ, retryVars, msgRetryMap,
                   postVars, msgs, histVars, auxVars, outVars>>

(* ResendRelay when the counter is bumped for every id of the receipt *)
ResendRelayBumpsAll(i) ==
    LET ids == ReceiptIds(stanzas[i])
        k == msgs[i].k
    IN  /\ pc[i] = "loop"
        /\ k <= Len(ids)
        /\ msgs' = Update(msgs, i, [msgs[i] EXCEPT !.k = k + 1])
        /\ msgRetryMap' = [msgRetryMap EXCEPT ![ids[k]] = @ + 1]
        /\ IF ids[k] \in msgs[i].avail
           THEN /\ Say(i, Fx("relayMessage", ids[k]))
                /\ pc' = Update(pc, i, "relayMessage")
           ELSE UNCHANGED <<fx, pc>>
        /\ UNCHANGED <<wsOpen, cfgDelay, stanzas, dec, procQ, retryVars, postVars,
                       histVars, auxVars, sockFx>>

(* one turn of the loop of sendMessagesAgain: the counter of an available  *)
(* message is bumped and the message relayed (await relayMessage)          *)
ResendRelay(i) ==
    LET ids == ReceiptIds(stanzas[i])
        k == msgs[i].k
    IN  /\ pc[i] = "loop"
        /\ k <= Len(ids)
        /\ msgs' = Update(msgs, i, [msgs[i] EXCEPT !.k = k + 1])
        /\ IF ids[k] \in msgs[i].avail
           THEN /\ msgRetryMap' = [msgRetryMap EXCEPT ![ids[k]] = @ + 1]
                /\ Say(i, Fx("relayMessage", ids[k]))
                /\ pc' = Update(pc, i, "relayMessage")
           ELSE UNCHANGED <<msgRetryMap, fx, pc>>
        /\ UNCHANGED <<wsOpen, cfgDelay, stanzas, dec, procQ, retryVars, postVars,
                       histVars, auxVars, sockFx>>

(* relayMessage returned *)
ResendRelayed(i) ==
    /\ pc[i] = "relayMessage"
    /\ pc' = Update(pc, i, "loop")
    /\ UNCHANGED <<wsOpen, cfgDelay, stanzas, dec, procQ, retryVars, msgRetryMap,
                   postVars, msgs, histVars, auxVars, outVars>>

(* ResendDone when the receipt is not acked after the resend *)
ResendDoneNoAck(i) ==
    /\ pc[i] = "loop"
    /\ msgs[i].k > Len(ReceiptIds(stanzas[i]))
    /\ ReceiptLeave(i)
    /\ UNCHANGED <<wsOpen, cfgDelay, stanzas, dec, retryVars, msgRetryMap, postVars,
                   msgs, histVars, auxVars, outVars>>

(* sendMessagesAgain returned: the receipt is acked *)
ResendDone(i) ==
    /\ pc[i] = "loop"
    /\ msgs[i].k > Len(ReceiptIds(stanzas[i]))
    /\ Say(i, sendMessageAck(i, none))
    /\ ReceiptLeave(i)
    /\ UNCHANGED <<wsOpen, cfgDelay, stanzas, dec, retryVars, msgRetryMap, postVars,
                   msgs, histVars, auxVars, sockFx>>

(* ResendThrow when the receipt is acked after the error was logged *)
ResendThrowAcked(i) ==
    /\ pc[i] \in {"getMessage", "assertSessions", "keys.set", "relayMessage"}
    /\ fx' = Update(fx, i, fx[i] \o <<Fx("logger.error", "error in sending message again"),
                                      sendMessageAck(i, none)>>)
    /\ ReceiptLeave(i)
    /\ UNCHANGED <<wsOpen, cfgDelay, stanzas, dec, retryVars, msgRetryMap, postVars,
                   msgs, histVars, auxVars, sockFx>>

(* getMessage, assertSessions, keys.set or relayMessage throws: 'error in  *)
(* sending message again', shouldAck = false                               *)
ResendThrow(i) ==
    /\ pc[i] \in {"getMessage", "assertSessions", "keys.set", "relayMessage"}
    /\ Say(i, Fx("logger.error", "error in sending message again"))
    /\ ReceiptLeave(i)
    /\ UNCHANGED <<wsOpen, cfgDelay, stanzas, dec, retryVars, msgRetryMap, postVars,
                   msgs, histVars, auxVars, sockFx>>

----------------------------------------------------------------------------
(* handleNotification and processNotification *)

GroupChildren ==
    {"create", "ephemeral", "not_ephemeral", "promote", "demote", "remove", "add",
     "leave", "subject", "announcement", "not_announcement", "locked", "unlocked"}

(* the messageStubType of the result of processNotification, none when    *)
(* the result carries none                                                 *)
StubType(s) ==
    CASE s.child = "create" -> "GROUP_CREATE"
      [] s.child \in {"ephemeral", "not_ephemeral"} -> none
      [] s.child = "remove" /\ s.items = <<s.participant>> -> "GROUP_PARTICIPANT_LEAVE"
      [] s.child = "promote" -> "GROUP_PARTICIPANT_PROMOTE"
      [] s.child = "demote" -> "GROUP_PARTICIPANT_DEMOTE"
      [] s.child = "remove" -> "GROUP_PARTICIPANT_REMOVE"
      [] s.child = "add" -> "GROUP_PARTICIPANT_ADD"
      [] s.child = "leave" -> "GROUP_PARTICIPANT_LEAVE"
      [] s.child = "subject" -> "GROUP_CHANGE_SUBJECT"
      [] s.child \in {"announcement", "not_announcement"} -> "GROUP_CHANGE_ANNOUNCE"
      [] s.child \in {"locked", "unlocked"} -> "GROUP_CHANGE_RESTRICT"
      [] OTHER -> none

(* processNotification returns a message *)
HasResult(s) == s.type = "w:gp2" /\ s.child \in GroupChildren

(* what processNotification emits and calls, before it returns *)
NotificationEvents(s) ==
    CASE s.type = "w:gp2" /\ s.child = "create" ->
            <<Fx("chats.upsert", s.from), Fx("groups.upsert", s.from)>>
      [] s.type = "mediaretry" -> <<Fx("messages.media-update", s.id)>>
      [] s.type = "encrypt" /\ s.from = "s.whatsapp.net" /\ s.value < MIN_PREKEY_COUNT ->
            <<Fx("uploadPreKeys", none)>>
      [] OTHER -> <<>>

(* RecvNotification when the ack is left for after the interpretation *)
RecvNotificationUnacked(s) ==
    /\ Arrive(s, "acked", "na", "none", <<>>)
    /\ UNCHANGED <<wsOpen, cfgDelay, procQ, retryQ, msgRetryMap, postQ, histVars,
                   auxVars, sockFx>>

(* ws.on('CB:notification'): handleNotification up to await sendMessageAck *)
RecvNotification(s) ==
    /\ Arrive(s, "acked", "na", "none", <<AckFor(s, none)>>)
    /\ UNCHANGED <<wsOpen, cfgDelay, procQ, retryQ, msgRetryMap, postQ, histVars,
                   auxVars, sockFx>>

(* sendMessageAck returned: processNotification, and messages.upsert of   *)
(* its result with type 'append'                                           *)
NotificationProcess(i) ==
    /\ stanzas[i].tag = "notification"
    /\ pc[i] = "acked"
    /\ pc' = Update(pc, i, "done")
    /\ IF HasResult(stanzas[i])
       THEN /\ fx' = Update(fx, i, fx[i] \o NotificationEvents(stanzas[i])
                        \o <<Fx("messages.upsert", "append")>>)
            /\ postQ' = [postQ EXCEPT ![stanzas[i].from] = MutexEnter(@, i)]
            /\ ppc' = Update(ppc, i, "queued")
       ELSE /\ fx' = Update(fx, i, fx[i] \o NotificationEvents(stanzas[i]))
            /\ UNCHANGED postVars
    /\ UNCHANGED <<wsOpen, cfgDelay, stanzas, dec, procQ, retryVars, msgRetryMap,
                   msgs, histVars, auxVars, sockFx>>

(* processNotification throws: onUnexpectedError(error, 'handling         *)
(* notification')                                                          *)
NotificationThrow(i) ==
    /\ stanzas[i].tag = "notification"
    /\ pc[i] = "acked"
    /\ pc' = Update(pc, i, "done")
    /\ Say(i, Fx("onUnexpectedError", "handling notification"))
    /\ UNCHANGED <<wsOpen, cfgDelay, stanzas, dec, procQ, retryVars, msgRetryMap,
                   postVars, msgs, histVars, auxVars, sockFx>>

----------------------------------------------------------------------------
(* ws.on('CB:call'): handleCallNode, and the subscriber of the call event *)

Terminal == {"reject", "accept", "timeout"}

Offers(cache, callId) == {c \in cache : c.id = callId}

(* CallCache when a terminal status leaves the offer in the cache *)
CallCacheKeeps(s) ==
    IF s.child = "offer"
    THEN (callOfferData \ Offers(callOfferData, s.callId))
         \cup {[id |-> s.callId, isVideo |-> s.video, isGroup |-> s.group]}
    ELSE callOfferData

(* callOfferData after the stanza *)
CallCache(s) ==
    LET put == IF s.child = "offer"
               THEN (callOfferData \ Offers(callOfferData, s.callId))
                    \cup {[id |-> s.callId, isVideo |-> s.video, isGroup |-> s.group]}
               ELSE callOfferData
    IN  IF s.child \in Terminal THEN put \ Offers(put, s.callId) ELSE put

(* the call event: isVideo and isGroup come from the cached offer, if any *)
CallEvent(s) ==
    LET put == IF s.child = "offer"
               THEN {[id |-> s.callId, isVideo |-> s.video, isGroup |-> s.group]}
               ELSE Offers(callOfferData, s.callId)
    IN  [id |-> s.callId, status |-> s.child, offline |-> s.offline,
         known |-> put # {},
         isVideo |-> \E c \in put : c.isVideo,
         isGroup |-> \E c \in put : c.isGroup]

(* ev.on('call') emits messages.upsert for a missed or a group call *)
CallUpserts(call) == call.status = "timeout" \/ (call.status = "offer" /\ call.isGroup)

RecvCall(s) ==
    LET call == CallEvent(s)
        upsert == IF CallUpserts(call)
                  THEN <<Fx("messages.upsert", IF call.offline THEN "append" ELSE "notify")>>
                  ELSE <<>>
    IN  /\ Arrive(s, "done", "na", IF CallUpserts(call) THEN "queued" ELSE "none",
                  <<Fx("call", call)>> \o upsert \o <<AckFor(s, s.child)>>)
        /\ callOfferData' = CallCache(s)
        /\ postQ' = IF CallUpserts(call)
                    THEN [postQ EXCEPT ![s.from] = MutexEnter(@, N + 1)]
                    ELSE postQ
        /\ UNCHANGED <<wsOpen, cfgDelay, procQ, retryQ, msgRetryMap, histVars,
                       sendActiveReceipts, updates, sending, sockFx>>

----------------------------------------------------------------------------
(* handleUpsertedMessages under processingMutex key 'p-' + chat:           *)
(* processMessageLocal                                                     *)

isAnyHistoryMsg(i) == dec[i] = "ok" /\ stanzas[i].hist

(* msg.key.remoteJid of the message upserted for stanza i *)
UpsertChat(i) ==
    IF stanzas[i].tag = "message" THEN MsgRemoteJid(stanzas[i]) ELSE stanzas[i].from

(* await processMessage(msg, {historyCache, recvChats, ...}): a history    *)
(* notification is recorded in historyCache and recvChats                  *)
PostProcess(i) ==
    /\ ppc[i] = "queued"
    /\ MutexHolds(postQ[UpsertChat(i)], i)
    /\ ppc' = Update(ppc, i, "processing")
    /\ IF isAnyHistoryMsg(i)
       THEN /\ historyCache' = historyCache \cup {stanzas[i].id}
            /\ recvChats' = recvChats \cup {UpsertChat(i)}
       ELSE UNCHANGED <<historyCache, recvChats>>
    /\ UNCHANGED <<wsOpen, cfgDelay, intakeVars, retryVars, msgRetryMap, postQ, msgs,
                   timer, quiet, syncing, auxVars, outVars>>

(* PostFinish when start() leaves an armed timeout running *)
PostFinishNoRestart(i) ==
    /\ ppc[i] = "processing"
    /\ ppc' = Update(ppc, i, "done")
    /\ postQ' = [postQ EXCEPT ![UpsertChat(i)] = MutexLeave(@)]
    /\ IF isAnyHistoryMsg(i)
       THEN /\ timer' = IF timer >= 0 THEN timer ELSE SyncQuietSeconds
            /\ quiet' = 0
            /\ Say(i, Fx("sendReceipt", "hist_sync"))
       ELSE UNCHANGED <<timer, quiet, fx>>
    /\ UNCHANGED <<wsOpen, cfgDelay, intakeVars, retryVars, msgRetryMap, msgs,
                   syncing, historyCache, recvChats, auxVars, sockFx>>

(* processMessage returned: appStateSyncTimeout.start() and the hist_sync  *)
(* receipt for a history message; the events are emitted                   *)
PostFinish(i) ==
    /\ ppc[i] = "processing"
    /\ ppc' = Update(ppc, i, "done")
    /\ postQ' = [postQ EXCEPT ![UpsertChat(i)] = MutexLeave(@)]
    /\ IF isAnyHistoryMsg(i)
       THEN /\ timer' = SyncQuietSeconds
            /\ quiet' = 0
            /\ Say(i, Fx("sendReceipt", "hist_sync"))
       ELSE UNCHANGED <<timer, quiet, fx>>
    /\ UNCHANGED <<wsOpen, cfgDelay, intakeVars, retryVars, msgRetryMap, msgs,
                   syncing, historyCache, recvChats, auxVars, sockFx>>

----------------------------------------------------------------------------
(* appStateSyncTimeout (debouncedTimeout) and timeoutAppState *)

(* a second passes while the timeout is armed *)
Tick ==
    /\ timer > 0
    /\ timer' = timer - 1
    /\ quiet' = quiet + 1
    /\ UNCHANGED <<wsOpen, cfgDelay, intakeVars, retryVars, msgRetryMap, postVars,
                   msgs, syncing, historyCache, recvChats, auxVars, outVars>>

(* TimerFire when ws.readyState is not looked at *)
TimerFireAnyTransport ==
    /\ timer = 0
    /\ timer' = -1
    /\ SockSay(Fx("resyncMainAppState", recvChats))
    /\ syncing' = syncing + 1
    /\ UNCHANGED <<wsOpen, cfgDelay, intakeVars, retryVars, msgRetryMap, postVars,
                   msgs, quiet, historyCache, recvChats, auxVars, fx>>

(* the timeout fires: timeoutAppState up to await resyncMainAppState, or   *)
(* to its end when the transport is not open                               *)
TimerFire ==
    /\ timer = 0
    /\ timer' = -1
    /\ IF wsOpen
       THEN /\ SockSay(Fx("resyncMainAppState", recvChats))
            /\ syncing' = syncing + 1
            /\ UNCHANGED <<historyCache, recvChats>>
       ELSE /\ historyCache' = {}
            /\ recvChats' = {}
            /\ UNCHANGED <<syncing, sockFx>>
    /\ UNCHANGED <<wsOpen, cfgDelay, intakeVars, retryVars, msgRetryMap, postVars,
                   msgs, quiet, auxVars, fx>>

(* resyncMainAppState returned: historyCache.clear(), recvChats = { } *)
ResyncReturn ==
    /\ syncing > 0
    /\ syncing' = syncing - 1
    /\ historyCache' = {}
    /\ recvChats' = {}
    /\ SockSay(Fx("timeoutAppState returned", none))
    /\ UNCHANGED <<wsOpen, cfgDelay, intakeVars, retryVars, msgRetryMap, postVars,
                   msgs, timer, quiet, auxVars, fx>>

(* resyncMainAppState threw: onUnexpectedError(err, 'timing out app state') *)
ResyncThrow ==
    /\ syncing > 0
    /\ syncing' = syncing - 1
    /\ SockSay(Fx("onUnexpectedError", "timing out app state"))
    /\ UNCHANGED <<wsOpen, cfgDelay, intakeVars, retryVars, msgRetryMap, postVars,
                   msgs, timer, quiet, historyCache, recvChats, auxVars, fx>>

(* the transport closes *)
WsClose ==
    /\ wsOpen
    /\ wsOpen' = FALSE
    /\ UNCHANGED <<cfgDelay, intakeVars, retryVars, msgRetryMap, postVars, msgs,
                   histVars, auxVars, outVars>>

(* ConnectionUpdate when isOnline is coerced to a boolean without the test *)
(* of typeof isOnline                                                      *)
ConnectionUpdateCoerced(update) ==
    /\ Len(updates) < MaxUpdates
    /\ updates' = Append(updates, update)
    /\ sendActiveReceipts' = ("isOnline" \in DOMAIN update /\ update.isOnline)
    /\ UNCHANGED <<wsOpen, cfgDelay, intakeVars, retryVars, msgRetryMap, postVars,
                   msgs, histVars, callOfferData, sending, outVars>>

(* ev.on('connection.update'): the update is a partial connection state;   *)
(* isOnline, when defined, sets sendActiveReceipts                         *)
ConnectionUpdate(update) ==
    /\ Len(updates) < MaxUpdates
    /\ updates' = Append(updates, update)
    /\ sendActiveReceipts' = IF "isOnline" \in DOMAIN update THEN update.isOnline
                             ELSE sendActiveReceipts
    /\ UNCHANGED <<wsOpen, cfgDelay, intakeVars, retryVars, msgRetryMap, postVars,
                   msgs, histVars, callOfferData, sending, outVars>>

----------------------------------------------------------------------------
(* The outbound API: sendMessage, prepareMediaMessage, sendGenericMessage *)

TextTypes == {"text"}
PlainTypes == {"location"}
MediaTypes == {"image", "document", "sticker"}

(* MimetypeMap[mediaType] *)
MimetypeMap(mediaType) ==
    CASE mediaType = "image" -> "image/jpeg"
      [] mediaType = "document" -> "application/pdf"
      [] mediaType = "sticker" -> "image/webp"
      [] OTHER -> none

(* the two throws at the head of prepareMediaMessage *)
MediaError(mediaType, mimetype, caption) ==
    IF mediaType = "document" /\ mimetype = none
    THEN "mimetype required to send a document"
    ELSE IF mediaType = "sticker" /\ caption
    THEN "cannot send a caption with a sticker"
    ELSE none

(* options.mimetype after the default and the rewrite of image/gif, and    *)
(* the gifPlayback marker                                                  *)
MediaContent(mediaType, mimetype) ==
    LET given == IF mimetype = none THEN MimetypeMap(mediaType) ELSE mimetype
    IN  [mimetype |-> IF given = "image/gif" THEN "video/mp4" ELSE given,
         gifPlayback |-> given = "image/gif",
         url |-> FALSE]

inboundVars ==
    <<wsOpen, cfgDelay, intakeVars, retryVars, msgRetryMap, postVars, msgs, histVars,
      callOfferData, sendActiveReceipts, updates, outVars>>

SendFails(error) == sending' = [sending EXCEPT !.pc = "failed", !.error = error]

SendCalls(at, call) == sending' = [sending EXCEPT !.pc = at, !.calls = Append(@, call)]

(* sendMessage when prepareMediaMessage does not look at the options *)
sendMessageUnchecked(type, message, mimetype, caption) ==
    LET call == [pc |-> "idle", type |-> type, message |-> message, mimetype |-> mimetype,
                 caption |-> caption, content |-> NoContent, calls |-> <<>>,
                 error |-> none]
    IN  /\ sending.pc \in {"idle", "done", "failed"}
        /\ IF type \in TextTypes /\ message # "string"
           THEN sending' = [call EXCEPT !.pc = "failed",
                                        !.error = "expected message to be a string"]
           ELSE IF type \in TextTypes \cup PlainTypes
           THEN sending' = [call EXCEPT !.pc = "relay", !.calls = <<"relay">>]
           ELSE sending' = [call EXCEPT !.pc = "thumbnail",
                                        !.content = MediaContent(type, mimetype),
                                        !.calls = <<"generateThumbnail">>]
        /\ UNCHANGED inboundVars

(* sendMessage up to its first await: a throw, the relay query of          *)
(* sendGenericMessage, or generateThumbnail in prepareMediaMessage         *)
sendMessage(type, message, mimetype, caption) ==
    LET call == [pc |-> "idle", type |-> type, message |-> message, mimetype |-> mimetype,
                 caption |-> caption, content |-> NoContent, calls |-> <<>>,
                 error |-> none]
    IN  /\ sending.pc \in {"idle", "done", "failed"}
        /\ IF type \in TextTypes /\ message # "string"
           THEN sending' = [call EXCEPT !.pc = "failed",
                                        !.error = "expected message to be a string"]
           ELSE IF type \in TextTypes \cup PlainTypes
           THEN sending' = [call EXCEPT !.pc = "relay", !.calls = <<"relay">>]
           ELSE IF MediaError(type, mimetype, caption) # none
           THEN sending' = [call EXCEPT !.pc = "failed",
                                        !.error = MediaError(type, mimetype, caption)]
           ELSE sending' = [call EXCEPT !.pc = "thumbnail",
                                        !.content = MediaContent(type, mimetype),
                                        !.calls = <<"generateThumbnail">>]
        /\ UNCHANGED inboundVars

(* generateThumbnail returned: await this.query(['query', 'mediaConn']) *)
ThumbnailDone ==
    /\ sending.pc = "thumbnail"
    /\ SendCalls("mediaConn", "query mediaConn")
    /\ UNCHANGED inboundVars

(* the upload slot is there: await fetch(hostname, { method: 'POST', ... }) *)
MediaConnDone ==
    /\ sending.pc = "mediaConn"
    /\ SendCalls("upload", "fetch")
    /\ UNCHANGED inboundVars

(* the response of the upload: without url a throw, with it the content    *)
(* object is returned and sendGenericMessage sends the relay query         *)
UploadDone(url) ==
    /\ sending.pc = "upload"
    /\ IF ~url
       THEN SendFails("UPLOAD FAILED")
       ELSE sending' = [sending EXCEPT !.pc = "relay", !.content.url = TRUE,
                                      !.calls = Append(@, "relay")]
    /\ UNCHANGED inboundVars

(* queryExpecting200 returned: { status, messageID } *)
RelayDone ==
    /\ sending.pc = "relay"
    /\ sending' = [sending EXCEPT !.pc = "done"]
    /\ UNCHANGED inboundVars

(* the awaited call rejects: the error goes to the caller of sendMessage *)
SendThrow ==
    /\ sending.pc \in {"thumbnail", "mediaConn", "upload", "relay"}
    /\ SendFails("rejected")
    /\ UNCHANGED inboundVars

----------------------------------------------------------------------------
MsgStanza(id, from, offline, category, fromMe, hist) ==
    [tag |-> "message", id |-> id, from |-> from,
     participant |-> IF isJidGroup(from) THEN "bob" ELSE none,
     offline |-> offline, category |-> category, fromMe |-> fromMe,
     hist |-> hist] @@ Blank

ReceiptStanza(id, from, participant, recipient, type, items) ==
    [tag |-> "receipt", id |-> id, from |-> from, participant |-> participant,
     recipient |-> recipient, type |-> type, items |-> items] @@ Blank

NotificationStanza(id, from, participant, type, child, items, value) ==
    [tag |-> "notification", id |-> id, from |-> from, participant |-> participant,
     type |-> type, child |-> child, items |-> items, value |-> value] @@ Blank

CallStanza(id, from, child, callId, video, group, offline) ==
    [tag |-> "call", id |-> id, from |-> from, child |-> child, callId |-> callId,
     video |-> video, group |-> group, offline |-> offline] @@ Blank

Init == InitWith(BOOLEAN, InitMaps)

NoCounters == {[id \in Ids |-> 0]}

(* the steps of the handler of a message stanza *)
IntakeSteps ==
    \/ \E i \in Tasks, r \in {"ok", "fail"} : DecryptResolve(i, r)
    \/ \E i \in Tasks : MsgAck(i)
    \/ \E i \in Tasks : MsgFailed(i)
    \/ \E i \in Tasks : MsgReceipt(i)
    \/ \E i \in Tasks : MsgUpsert(i)

(* the steps of a retry task *)
RetrySteps ==
    \/ \E i \in Tasks : RetryClosed(i)
    \/ \E i \in Tasks : RetryCapped(i)
    \/ \E i \in Tasks : RetryBegin(i)
    \/ \E i \in Tasks : RetrySend(i)
    \/ \E i \in Tasks : RetryCommit(i)
    \/ \E i \in Tasks : RetryThrow(i)
    \/ \E i \in Tasks : RetryDelayed(i)

(* the steps of the handler of a receipt stanza *)
ReceiptSteps ==
    \/ \E i \in Tasks : ReceiptRun(i)
    \/ \E i \in Tasks : ReceiptResend(i)
    \/ \E i \in Tasks : \E avail \in SUBSET Ids : ResendFetched(i, avail)
    \/ \E i \in Tasks : ResendAsserted(i)
    \/ \E i \in Tasks : ResendKeysSet(i)
    \/ \E i \in Tasks : ResendRelay(i)
    \/ \E i \in Tasks : ResendRelayed(i)
    \/ \E i \in Tasks : ResendDone(i)
    \/ \E i \in Tasks : ResendThrow(i)

NotificationSteps ==
    \/ \E i \in Tasks : NotificationProcess(i)
    \/ \E i \in Tasks : NotificationThrow(i)

(* the steps of the subscriber of messages.upsert *)
PostSteps ==
    \/ \E i \in Tasks : PostProcess(i)
    \/ \E i \in Tasks : PostFinish(i)

(* the steps of the history-sync gate *)
GateSteps ==
    \/ Tick
    \/ TimerFire
    \/ ResyncReturn
    \/ ResyncThrow

----------------------------------------------------------------------------
(* Message intake and the retry requester: message stanzas of two ids in  *)
(* two chats, every outcome of the decryption, the transport closing       *)

CoreMsgs == {MsgStanza(id, from, FALSE, none, FALSE, FALSE) : id \in Ids, from \in Chats}

Next ==
    \/ \E s \in CoreMsgs : N < MaxStanzas /\ RecvMessage(s)
    \/ IntakeSteps
    \/ RetrySteps
    \/ WsClose

Spec == Init /\ [][Next]_vars

----------------------------------------------------------------------------
(* The four handlers and their acks *)

AckMsgs == {MsgStanza(id, "alice", FALSE, none, FALSE, FALSE) : id \in Ids}

AckReceipts ==
    {ReceiptStanza("A", "alice", none, none, "retry", <<>>),
     ReceiptStanza("B", "alice", none, none, "retry", <<"A">>),
     ReceiptStanza("A", "alice", none, none, none, <<>>),
     ReceiptStanza("A", "grp", "bob", none, "retry", <<>>),
     ReceiptStanza("A", "alice", none, "alice", "retry", <<>>)}

AckNotifications ==
    {NotificationStanza("A", "grp", "bob", "w:gp2", "create", <<>>, 0),
     NotificationStanza("A", "s.whatsapp.net", none, "encrypt", "count", <<>>, 3),
     NotificationStanza("B", "alice", none, "devices", "devices", <<>>, 0)}

AckCalls ==
    {CallStanza("A", "alice", "offer", "call1", TRUE, FALSE, FALSE),
     CallStanza("B", "alice", "timeout", "call1", FALSE, FALSE, FALSE)}

NextAck ==
    \/ \E s \in AckMsgs : N < MaxStanzas /\ RecvMessage(s)
    \/ \E s \in AckReceipts : N < MaxStanzas /\ RecvReceipt(s)
    \/ \E s \in AckNotifications : N < MaxStanzas /\ RecvNotification(s)
    \/ \E s \in AckCalls : N < MaxStanzas /\ RecvCall(s)
    \/ IntakeSteps
    \/ ReceiptSteps
    \/ NotificationSteps

SpecAck == InitWith({FALSE}, InitMaps) /\ [][NextAck]_vars

----------------------------------------------------------------------------
(* Receipts of every type for messages of one chat, and failed messages of *)
(* that chat: the retry counters and the published statuses. No retry      *)
(* receipt is of a group, so the sender-key memory is never reset          *)

ChatMsgs == {MsgStanza(id, "alice", FALSE, none, FALSE, FALSE) : id \in Ids}

StatusReceipts ==
    {ReceiptStanza(id, "alice", none, none, type, <<>>) :
        id \in Ids, type \in {none, "read", "played"}}
    \cup {ReceiptStanza("A", Me, none, "alice", type, <<>>) : type \in {none, "read"}}
    \cup {ReceiptStanza("A", "grp", "bob", none, type, <<>>) : type \in {none, "read"}}

RetryReceipts ==
    {ReceiptStanza("A", "alice", none, none, "retry", <<>>),
     ReceiptStanza("B", "alice", none, none, "retry", <<"A">>),
     ReceiptStanza("A", "alice", none, none, "retry", <<"B">>),
     ReceiptStanza("A", "alice", none, "alice", "retry", <<>>)}

NextReceipt ==
    \/ \E s \in ChatMsgs : N < MaxStanzas /\ RecvMessage(s)
    \/ \E s \in StatusReceipts \cup RetryReceipts : N < MaxStanzas /\ RecvReceipt(s)
    \/ IntakeSteps
    \/ RetrySteps
    \/ \E i \in Tasks : ReceiptRun(i)
    \/ \E i \in Tasks : ReceiptResend(i)
    \/ \E i \in Tasks : \E avail \in SUBSET Ids : ResendFetched(i, avail)
    \/ \E i \in Tasks : ResendAsserted(i)
    \/ \E i \in Tasks : ResendRelay(i)
    \/ \E i \in Tasks : ResendRelayed(i)
    \/ \E i \in Tasks : ResendDone(i)
    \/ \E i \in Tasks : ResendThrow(i)
    \/ WsClose

SpecReceipt == InitWith({FALSE, TRUE}, InitMaps) /\ [][NextReceipt]_vars

----------------------------------------------------------------------------
(* The history-sync gate: messages with and without a history              *)
(* notification, the subscriber of messages.upsert, the timeout, the       *)
(* transport closing                                                       *)

GateMsgs ==
    {MsgStanza("A", from, FALSE, none, FALSE, TRUE) : from \in Chats}
        \cup {MsgStanza("A", "alice", FALSE, none, FALSE, FALSE)}

NextGate ==
    \/ \E s \in GateMsgs : N < MaxStanzas /\ RecvMessage(s)
    \/ IntakeSteps
    \/ \E i \in Tasks : RetryClosed(i)
    \/ \E i \in Tasks : RetryBegin(i)
    \/ \E i \in Tasks : RetrySend(i)
    \/ \E i \in Tasks : RetryCommit(i)
    \/ \E i \in Tasks : RetryThrow(i)
    \/ PostSteps
    \/ GateSteps
    \/ WsClose

SpecGate == InitWith({FALSE}, NoCounters) /\ [][NextGate]_vars

----------------------------------------------------------------------------
(* Message intake over the kinds of message stanza: with and without the   *)
(* offline attribute, of category peer, sent by us from another device;    *)
(* the transport stays open                                                *)

KindMsgs ==
    {MsgStanza("A", "alice", offline, category, fromMe, FALSE) :
        offline \in BOOLEAN, category \in {none, "peer"}, fromMe \in BOOLEAN}
        \cup {MsgStanza("A", "grp", FALSE, none, TRUE, FALSE)}

NextKinds ==
    \/ \E s \in KindMsgs : N < MaxStanzas /\ RecvMessage(s)
    \/ IntakeSteps
    \/ \E i \in Tasks : RetryBegin(i)
    \/ \E i \in Tasks : RetrySend(i)
    \/ \E i \in Tasks : RetryCommit(i)
    \/ \E i \in Tasks : RetryThrow(i)

SpecKinds == InitWith({FALSE}, NoCounters) /\ [][NextKinds]_vars

----------------------------------------------------------------------------
(* The outbound API alone: every type of message, with and without         *)
(* mimetype and caption, every outcome of the external calls               *)

SendMimetypes == {none, "application/pdf", "image/gif"}

NextSend ==
    \/ \E type \in TextTypes \cup PlainTypes \cup MediaTypes :
       \E message \in {"string", "buffer"} :
       \E mimetype \in SendMimetypes :
       \E caption \in BOOLEAN : sendMessage(type, message, mimetype, caption)
    \/ ThumbnailDone
    \/ MediaConnDone
    \/ \E url \in BOOLEAN : UploadDone(url)
    \/ RelayDone
    \/ SendThrow

SpecSend == InitWith({FALSE}, NoCounters) /\ [][NextSend]_vars

----------------------------------------------------------------------------
(* The notification interpreter alone: a group creation, a participant who *)
(* removed themselves, a media retry, the prekey count above and below the *)
(* minimum, a device list; and the subscriber of the messages.upsert       *)

NotifyStanzas ==
    {NotificationStanza("A", "grp", "bob", "w:gp2", "create", <<>>, 0),
     NotificationStanza("A", "grp", "bob", "w:gp2", "remove", <<"bob">>, 0),
     NotificationStanza("A", "alice", none, "mediaretry", "rmr", <<>>, 0),
     NotificationStanza("A", "s.whatsapp.net", none, "encrypt", "count", <<>>, 3),
     NotificationStanza("B", "s.whatsapp.net", none, "encrypt", "count", <<>>, 7),
     NotificationStanza("B", "alice", none, "devices", "devices", <<>>, 0)}

NextNotify ==
    \/ \E s \in NotifyStanzas : N < MaxStanzas /\ RecvNotification(s)
    \/ NotificationSteps
    \/ PostSteps

SpecNotify == InitWith({FALSE}, NoCounters) /\ [][NextNotify]_vars

----------------------------------------------------------------------------
(* Message intake with the subscriber of messages.upsert, when the event   *)
(* loop runs every continuation that is ready and every awaited promise    *)
(* settles: messages of two chats. The retry task of a failed decryption   *)
(* is not awaited by the handler (lines 497-508); it stays queued here     *)

LiveMsgs == {MsgStanza("A", from, FALSE, none, FALSE, FALSE) : from \in Chats}

NextLive ==
    \/ \E s \in LiveMsgs : N < MaxStanzas /\ RecvMessage(s)
    \/ IntakeSteps
    \/ PostSteps

(* the decryptionTask, sendMessageAck, sendReceipt and processMessage of   *)
(* every stanza settle, and a task the mutex has let in is run             *)
LiveFairness ==
    \A i \in 1..MaxStanzas :
        /\ WF_vars(i \in Tasks /\ \E r \in {"ok", "fail"} : DecryptResolve(i, r))
        /\ WF_vars(i \in Tasks /\ MsgAck(i))
        /\ WF_vars(i \in Tasks /\ MsgFailed(i))
        /\ WF_vars(i \in Tasks /\ MsgReceipt(i))
        /\ WF_vars(i \in Tasks /\ MsgUpsert(i))
        /\ WF_vars(i \in Tasks /\ PostProcess(i))
        /\ WF_vars(i \in Tasks /\ PostFinish(i))

SpecLive == InitWith({FALSE}, NoCounters) /\ [][NextLive]_vars /\ LiveFairness

----------------------------------------------------------------------------
(* The two writers of msgRetryMap: the retry tasks of failed messages of   *)
(* two chats, and the resends asked by retry receipts of the two chats     *)

CounterMsgs == {MsgStanza("A", from, FALSE, none, FALSE, FALSE) : from \in Chats}

CounterReceipts ==
    {ReceiptStanza("A", "alice", none, none, "retry", <<>>),
     ReceiptStanza("A", "grp", "bob", none, "retry", <<>>)}

NextCounters ==
    \/ \E s \in CounterMsgs : N < MaxStanzas /\ RecvMessage(s)
    \/ \E s \in CounterReceipts : N < MaxStanzas /\ RecvReceipt(s)
    \/ IntakeSteps
    \/ \E i \in Tasks : RetryCapped(i)
    \/ \E i \in Tasks : RetryBegin(i)
    \/ \E i \in Tasks : RetrySend(i)
    \/ \E i \in Tasks : RetryCommit(i)
    \/ \E i \in Tasks : RetryThrow(i)
    \/ ReceiptSteps

SpecCounters == InitWith({FALSE}, InitMaps) /\ [][NextCounters]_vars

----------------------------------------------------------------------------
(* The call handler alone: offers with and without video, of a group or    *)
(* not, and every later status, for two calls; and the subscriber of the   *)
(* messages.upsert of a missed or a group call                             *)

CallIds == {"call1", "call2"}

CallStanzas ==
    {CallStanza("A", "alice", "offer", callId, video, group, FALSE) :
        callId \in CallIds, video \in BOOLEAN, group \in BOOLEAN}
    \cup {CallStanza("A", "alice", child, callId, FALSE, FALSE, FALSE) :
        callId \in CallIds, child \in {"ringing"} \cup Terminal}

NextCalls ==
    \/ \E s \in CallStanzas : N < MaxStanzas /\ RecvCall(s)
    \/ PostSteps

SpecCalls == InitWith({FALSE}, NoCounters) /\ [][NextCalls]_vars

----------------------------------------------------------------------------
(* Message intake beside connection.update: plain and peer messages and    *)
(* messages sent by us from another device, while updates with isOnline    *)
(* true or false and updates without it arrive. The retry task of a failed *)
(* decryption is not awaited by the handler; it stays queued here          *)

OnlineMsgs ==
    {MsgStanza("A", "alice", FALSE, category, fromMe, FALSE) :
        category \in {none, "peer"}, fromMe \in BOOLEAN}

ConnectionUpdates ==
    {[isOnline |-> TRUE], [isOnline |-> FALSE], [connection |-> "open"]}

NextOnline ==
    \/ \E s \in OnlineMsgs : N < MaxStanzas /\ RecvMessage(s)
    \/ IntakeSteps
    \/ \E update \in ConnectionUpdates : ConnectionUpdate(update)

SpecOnline == InitWith({FALSE}, NoCounters) /\ [][NextOnline]_vars

----------------------------------------------------------------------------
(* What the claims speak of *)

IsMessage(i) == stanzas[i].tag = "message"

(* message stanzas i and j of one chat, i received before j *)
SameChatInOrder(i, j) ==
    /\ i < j
    /\ IsMessage(i) /\ IsMessage(j)
    /\ MsgRemoteJid(stanzas[i]) = MsgRemoteJid(stanzas[j])

(* the effects of a message stanza that its peer or the event bus sees *)
ObservableKinds == {"ack", "sendReceipt", "retry", "messages.upsert"}

Observable(i) == SelectSeq(fx[i], LAMBDA e : e.kind \in ObservableKinds)

(* the retry task of stanza i is inside sendRetryRequest or its delay *)
RetryActive(i) == rpc[i] \in {"tx", "sent", "delay"}

(* the resend asked for by receipt stanza i threw *)
ResendThrew(i) ==
    \E k \in 1..Len(fx[i]) : fx[i][k] = Fx("logger.error", "error in sending message again")

(* the acks sent for stanza i that carry its id and its tag *)
OwnAcks(i) ==
    {k \in Positions(i, "ack") :
        fx[i][k].arg.id = stanzas[i].id /\ fx[i][k].arg.class = stanzas[i].tag}

----------------------------------------------------------------------------
----------------------------------------------------------------------------
(* C2, as stated: between two message stanzas of one chat, every effect of *)
(* the first (ack, delivery or retry receipt, messages.upsert) is emitted  *)
(* before any effect of the second.                                        *)
C2_AllEffectsInArrivalOrder ==
    [][\A i \in Tasks, j \in Tasks :
          (SameChatInOrder(i, j) /\ Observable(i)' # Observable(i))
              => Observable(j) = <<>>]_vars

(* C2, amended: when the second stanza emits its first effect, the handler *)
(* of the first has returned, its ack, its delivery receipt if it was      *)
(* decrypted, and its messages.upsert are out; its retry receipt, if it    *)
(* was not decrypted, comes after its messages.upsert and is not ordered   *)
(* with the effects of the second.                                         *)
C2_HandlerEffectsInArrivalOrder ==
    \A i \in Tasks, j \in Tasks :
        /\ (SameChatInOrder(i, j) /\ Observable(j) # <<>>) =>
              /\ pc[i] = "done"
              /\ Count(i, "ack") = 1
              /\ Count(i, "messages.upsert") = 1
              /\ Count(i, "sendReceipt") = (IF dec[i] = "ok" THEN 1 ELSE 0)
        /\ (IsMessage(i) /\ Count(i, "retry") > 0) =>
              \E u \in Positions(i, "messages.upsert") :
                  \A r \in Positions(i, "retry") : u < r

C2_Witness ==
    \E i \in Tasks, j \in Tasks :
        /\ SameChatInOrder(i, j)
        /\ pc[j] = "done"
        /\ Count(i, "retry") = 1
        /\ rpc[i] = "sent"

----------------------------------------------------------------------------
(* C4: a call of sendRetryRequest that finds the stored counter at 5 or    *)
(* more deletes the entry and returns: no transaction, no stanza, no       *)
(* creds.update.                                                           *)
C4_NoRetryAtLimit ==
    [][\A i \in Tasks :
          (/\ rpc[i] = "queued" /\ rpc'[i] # "queued" /\ wsOpen
           /\ msgRetryMap[stanzas[i].id] >= RetryLimit)
          => /\ msgRetryMap'[stanzas[i].id] = 0
             /\ rpc'[i] \in {"delay", "done"}
             /\ fx' = fx]_vars

C4_Witness ==
    \E i \in Tasks :
        /\ rcount[i] >= RetryLimit
        /\ rpc[i] = "done"
        /\ msgRetryMap[stanzas[i].id] = 0
        /\ Count(i, "retry") = 0

----------------------------------------------------------------------------
(* C5, as stated: once a failing arrival of an id found the counter at the *)
(* limit, later failing arrivals of that id never send a retry receipt.    *)
C5_NoRetryAfterLimit ==
    \A i \in Tasks, j \in Tasks :
        (i < j /\ stanzas[i].id = stanzas[j].id /\ rcount[i] >= RetryLimit)
            => Count(j, "retry") = 0

(* C5, amended: the limit bounds the retry receipts between two clearings *)
(* of the counter.  A retry receipt carries the count read by its call,    *)
(* between 1 and 4, and its call stores that count plus one; the stored    *)
(* counter of an id only goes down when a call finds it at the limit and   *)
(* deletes the entry, after which the next failing arrival of the id sends *)
(* a retry receipt with count 1 again.                                     *)
C5_RetriesBoundedPerCount ==
    /\ [](\A i \in Tasks :
            /\ Count(i, "retry") <= 1
            /\ \A k \in Positions(i, "retry") :
                  /\ fx[i][k].arg.count = rcount[i]
                  /\ rcount[i] \in 1..(RetryLimit - 1))
    /\ [][/\ \A i \in Tasks :
               (rpc[i] = "queued" /\ rpc'[i] = "tx")
               => /\ rcount'[i] = (IF msgRetryMap[stanzas[i].id] = 0 THEN 1
                                   ELSE msgRetryMap[stanzas[i].id])
                  /\ rcount'[i] < RetryLimit
                  /\ msgRetryMap'[stanzas[i].id] = rcount'[i] + 1
          /\ \A id \in Ids :
               msgRetryMap'[id] < msgRetryMap[id]
               => (msgRetryMap[id] >= RetryLimit /\ msgRetryMap'[id] = 0)]_vars

C5_Witness ==
    \E i \in Tasks, j \in Tasks :
        /\ i < j /\ stanzas[i].id = stanzas[j].id
        /\ rcount[i] >= RetryLimit
        /\ Count(j, "retry") = 1
        /\ rcount[j] = 1

----------------------------------------------------------------------------
(* C6, as stated: the ack of a message stanza is sent before its           *)
(* decryption task resolves.                                               *)
C6_AckBeforeDecryptionResolves ==
    \A i \in Tasks : (IsMessage(i) /\ dec[i] # "pending") => Count(i, "ack") = 1

(* C6, amended: the ack of a message stanza is sent before the handler     *)
(* awaits the decryption task and so before anything it does with the      *)
(* outcome (delivery receipt, retry task, messages.upsert); the task runs  *)
(* from the arrival on and may resolve before the ack while the stanza     *)
(* waits for the mutex of its chat.                                        *)
C6_AckBeforeOutcomeUsed ==
    \A i \in Tasks :
        (IsMessage(i) /\ (pc[i] # "queued" \/ rpc[i] # "none" \/ fx[i] # <<>>))
            => (fx[i] # <<>> /\ fx[i][1].kind = "ack")

C6_Witness ==
    \E i \in Tasks, j \in Tasks :
        /\ SameChatInOrder(i, j)
        /\ pc[i] = "decrypt" /\ dec[i] = "pending"
        /\ pc[j] = "queued" /\ dec[j] # "pending"

----------------------------------------------------------------------------
(* C7: at most one retry submission (sendRetryRequest with its             *)
(* transaction, and the delay after it) is in progress at any moment; it   *)
(* holds the retry mutex until it has finished.                            *)
C7_RetriesSerialized ==
    /\ Cardinality({i \in Tasks : RetryActive(i)}) <= 1
    /\ \A i \in Tasks : RetryActive(i) => MutexHolds(retryQ, i)

C7_Witness ==
    \E i \in Tasks, j \in Tasks :
        /\ RetryActive(i) /\ rpc[i] = "delay"
        /\ rpc[j] = "queued"

----------------------------------------------------------------------------
(* C3: every counter stored in msgRetryMap lies in 1..5 (0 stands for no   *)
(* entry), also for the ids a retry receipt lists after its first id.      *)
C3_CountersWithinLimit ==
    \A id \in Ids : msgRetryMap[id] \in 0..RetryLimit

----------------------------------------------------------------------------
(* C8: a retry task that gets the retry mutex while the transport is not   *)
(* open writes no stanza, leaves the counter alone, opens no transaction   *)
(* and reports no error; appStateSyncTimeout firing while the transport is *)
(* not open does not call resyncMainAppState.                              *)
TimerFires == timer = 0 /\ timer' = -1

C8_ClosedTransportSkips ==
    [][/\ \A i \in Tasks :
             (rpc[i] = "queued" /\ rpc'[i] # "queued" /\ ~wsOpen)
             => /\ rpc'[i] = "ignored"
                /\ msgRetryMap' = msgRetryMap
                /\ fx' = fx /\ sockFx' = sockFx
       /\ (TimerFires /\ ~wsOpen) => (sockFx' = sockFx /\ syncing' = syncing)]_vars

C8_Witness ==
    /\ ~wsOpen
    /\ \E i \in Tasks : rpc[i] = "ignored" /\ Count(i, "retry") = 0
    /\ \E j \in Tasks : isAnyHistoryMsg(j) /\ ppc[j] = "done"
    /\ timer = -1 /\ sockFx = <<>> /\ recvChats = {}

----------------------------------------------------------------------------
(* C9: the statuses published for one message key by the messages.update   *)
(* events of handleReceipt never decrease, in whatever order the receipts  *)
(* arrive.                                                                 *)
Updates(i) == Positions(i, "messages.update")

InSeq(x, s) == \E k \in 1..Len(s) : s[k] = x

SameMessageKey(a, b) ==
    a.key = b.key /\ \E id \in Ids : InSeq(id, a.ids) /\ InSeq(id, b.ids)

C9_StatusNonDecreasing ==
    [][\A i \in Tasks :
          (Len(fx'[i]) > Len(fx[i]) /\ fx'[i][Len(fx[i]) + 1].kind = "messages.update")
          => \A j \in Tasks : \A m \in Updates(j) :
                SameMessageKey(fx[j][m].arg, fx'[i][Len(fx[i]) + 1].arg)
                    => fx[j][m].arg.status <= fx'[i][Len(fx[i]) + 1].arg.status]_vars

----------------------------------------------------------------------------
(* C10: the timeout fires only when 6 seconds have passed since the last   *)
(* history message was processed; a firing with the transport open calls   *)
(* resyncMainAppState once, with recvChats, which on the first call holds  *)
(* the chat of every history message processed so far (and of no other     *)
(* message); nothing else calls it; when the call returns, historyCache    *)
(* and recvChats are empty.                                                *)
HistoryChats(at) ==
    {UpsertChat(i) : i \in {j \in Tasks : isAnyHistoryMsg(j) /\ ppc[j] \in at}}

ResyncCalls(s) == Cardinality({k \in 1..Len(s) : s[k].kind = "resyncMainAppState"})

----------------------------------------------------------------------------
(* C11: a retry receipt carries the count read before the increment, and   *)
(* a keys bundle if and only if that count is above 1; while its           *)
(* transaction runs the stored counter is that count plus one; a call that *)
(* returned after sending emitted creds.update once, after the receipt,    *)
(* and creds.update is never emitted without a receipt before it.          *)
Before(i, kindA, kindB) ==
    \A a \in Positions(i, kindA) : \A b \in Positions(i, kindB) : a < b

C11_CountAndKeysBundle ==
    \A i \in Tasks :
        /\ \A k \in Positions(i, "retry") :
              /\ fx[i][k].arg.count = rcount[i]
              /\ fx[i][k].arg.id = stanzas[i].id
              /\ fx[i][k].arg.keys <=> (fx[i][k].arg.count \in 2..(RetryLimit - 1))
              /\ ~fx[i][k].arg.keys <=> (fx[i][k].arg.count = 1)
        /\ rpc[i] \in {"tx", "sent"} => msgRetryMap[stanzas[i].id] = rcount[i] + 1
        /\ Count(i, "creds.update") <= Count(i, "retry")
        /\ Before(i, "retry", "creds.update")
        /\ (rpc[i] \in {"delay", "done"} /\ rcount[i] < RetryLimit)
              => (Count(i, "retry") = 1 /\ Count(i, "creds.update") = 1)

C11_Witness ==
    \E i \in Tasks, j \in Tasks :
        /\ i < j /\ stanzas[i].id = stanzas[j].id
        /\ rpc[i] = "done" /\ rpc[j] = "done"
        /\ \E k \in Positions(i, "retry") : fx[i][k].arg.count = 1 /\ ~fx[i][k].arg.keys
        /\ \E k \in Positions(j, "retry") : fx[j][k].arg.count = 2 /\ fx[j][k].arg.keys
        /\ Count(j, "creds.update") = 1
        /\ msgRetryMap[stanzas[j].id] = 3

----------------------------------------------------------------------------
(* C12: the messages.upsert of a message stanza has type 'append' if the   *)
(* stanza carried the offline attribute and 'notify' if not, whether the   *)
(* message was decrypted or not; a handler that returned emitted it once.  *)
C12_UpsertTypeFollowsOffline ==
    \A i \in Tasks :
        IsMessage(i) =>
            /\ \A k \in Positions(i, "messages.upsert") :
                  /\ stanzas[i].offline => fx[i][k].arg = "append"
                  /\ ~stanzas[i].offline => fx[i][k].arg = "notify"
            /\ pc[i] = "done" => Count(i, "messages.upsert") = 1

C12_Witness ==
    \E i \in Tasks, j \in Tasks :
        /\ stanzas[i].offline /\ dec[i] = "fail" /\ pc[i] = "done"
        /\ \E k \in Positions(i, "messages.upsert") : fx[i][k].arg = "append"
        /\ ~stanzas[j].offline /\ dec[j] = "ok" /\ pc[j] = "done"
        /\ \E k \in Positions(j, "messages.upsert") : fx[j][k].arg = "notify"

----------------------------------------------------------------------------
(* C13: a sendMessage of a document without mimetype, or of a sticker with *)
(* a caption, fails before any external call; a call whose upload response *)
(* has no url fails without a relay; and a media message is only relayed   *)
(* after an upload that returned a url.                                    *)
C13_MediaErrorsRelayNothing ==
    /\ (sending.type = "document" /\ sending.mimetype = none)
          => (sending.pc = "failed" /\ sending.calls = <<>>
              /\ sending.error = "mimetype required to send a document")
    /\ (sending.type = "sticker" /\ sending.caption)
          => (sending.pc = "failed" /\ sending.calls = <<>>
              /\ sending.error = "cannot send a caption with a sticker")
    /\ sending.error = "UPLOAD FAILED"
          => (sending.pc = "failed" /\ ~InSeq("relay", sending.calls))
    /\ (sending.type \in MediaTypes /\ InSeq("relay", sending.calls))
          => (sending.content.url
              /\ sending.calls = <<"generateThumbnail", "query mediaConn", "fetch", "relay">>)

C13_Witness ==
    /\ sending.type = "image"
    /\ sending.pc = "failed" /\ sending.error = "UPLOAD FAILED"
    /\ sending.calls = <<"generateThumbnail", "query mediaConn", "fetch">>

----------------------------------------------------------------------------
(* C14: a receipt whose resend threw (getMessage, assertSessions, keys.set *)
(* or relayMessage) is not acked, and the logged error is the last thing   *)
(* its handler did; every other receipt whose handler returned was acked   *)
(* once, as the last thing; a retry receipt that is not answered, because  *)
(* its key is not fromMe or its first id is at the limit, makes no call of *)
(* the resend and is acked.                                                *)
LastFx(i) == fx[i][Len(fx[i])]

ResendKinds == {"assertSessions", "keys.set", "relayMessage"}

C14_ReceiptAckUnlessResendThrew ==
    /\ [](\A i \in Tasks :
            stanzas[i].tag = "receipt" =>
                /\ pc[i] # "done" => Count(i, "ack") = 0
                /\ (pc[i] = "done" /\ ResendThrew(i))
                      => (Count(i, "ack") = 0 /\ LastFx(i).kind = "logger.error")
                /\ (pc[i] = "done" /\ ~ResendThrew(i))
                      => (Count(i, "ack") = 1 /\ LastFx(i) = sendMessageAck(i, none))
                /\ (pc[i] = "done" /\ stanzas[i].type = "retry" /\ ~ReceiptFromMe(stanzas[i]))
                      => fx[i] = <<sendMessageAck(i, none)>>)
    /\ [][\A i \in Tasks :
             (/\ stanzas[i].tag = "receipt" /\ stanzas[i].type = "retry"
              /\ pc[i] = "queued" /\ pc'[i] # "queued"
              /\ msgRetryMap[stanzas[i].id] >= RetryLimit)
             => (pc'[i] = "done" /\ fx'[i] = <<sendMessageAck(i, none)>>)]_vars

C14_Witness ==
    \E i \in Tasks, j \in Tasks :
        /\ stanzas[i].tag = "receipt" /\ pc[i] = "done"
        /\ isJidGroup(stanzas[i].from) /\ Count(i, "keys.set") = 1
        /\ Count(i, "relayMessage") = 0
        /\ ResendThrew(i) /\ Count(i, "ack") = 0
        /\ stanzas[j].tag = "receipt" /\ stanzas[j].type = "retry" /\ pc[j] = "done"
        /\ ~ReceiptFromMe(stanzas[j])
        /\ fx[j] = <<sendMessageAck(j, none)>>

----------------------------------------------------------------------------
(* C15, as stated: the loop of sendMessagesAgain bumps the counter of      *)
(* every id of the receipt, whether its message is available or not.       *)
IsReceipt(i) == stanzas[i].tag = "receipt"

LoopTurn(i) == IsReceipt(i) /\ pc[i] = "loop" /\ msgs'[i].k = msgs[i].k + 1

Relays(i, id) ==
    Cardinality({k \in Positions(i, "relayMessage") : fx[i][k].arg = id})

C15_EveryIdBumped ==
    [][\A i \in Tasks :
          LoopTurn(i) =>
              msgRetryMap'[ReceiptIds(stanzas[i])[msgs[i].k]]
                  = msgRetryMap[ReceiptIds(stanzas[i])[msgs[i].k]] + 1]_vars

(* C15, amended: a resend is made only for a retry receipt whose key is    *)
(* fromMe and whose first id was below the limit; assertSessions is called *)
(* once, for the participant and with force, before any relay; a turn of   *)
(* the loop bumps the counter of its id by one and relays it if the        *)
(* message is available, and changes nothing if it is not; when the resend *)
(* has returned, each available id was relayed once and no other id.       *)
C15_AvailableIdsBumpedAndRelayed ==
    /\ [](\A i \in Tasks :
            IsReceipt(i) =>
                /\ Count(i, "assertSessions") <= 1
                /\ \A k \in Positions(i, "assertSessions") :
                      fx[i][k].arg = [jid |-> ResendParticipant(stanzas[i]), force |-> TRUE]
                /\ Count(i, "assertSessions") = 1
                      => (stanzas[i].type = "retry" /\ ReceiptFromMe(stanzas[i]))
                /\ Count(i, "relayMessage") > 0 => Count(i, "assertSessions") = 1
                /\ Before(i, "assertSessions", "relayMessage")
                /\ \A id \in Ids :
                      /\ Relays(i, id) <= 1
                      /\ Relays(i, id) = 1 => (id \in msgs[i].avail /\ InSeq(id, ReceiptIds(stanzas[i])))
                      /\ (/\ pc[i] = "done" /\ ~ResendThrew(i)
                          /\ Count(i, "assertSessions") = 1
                          /\ InSeq(id, ReceiptIds(stanzas[i])))
                         => Relays(i, id) = (IF id \in msgs[i].avail THEN 1 ELSE 0))
    /\ [][\A i \in Tasks :
             /\ (IsReceipt(i) /\ pc[i] = "queued" /\ pc'[i] = "getMessage")
                   => msgRetryMap[stanzas[i].id] < RetryLimit
             /\ LoopTurn(i) =>
                   LET id == ReceiptIds(stanzas[i])[msgs[i].k]
                   IN  IF id \in msgs[i].avail
                       THEN /\ msgRetryMap' = [msgRetryMap EXCEPT ![id] = @ + 1]
                            /\ fx'[i] = Append(fx[i], Fx("relayMessage", id))
                       ELSE msgRetryMap' = msgRetryMap /\ fx' = fx]_vars

C15_Witness ==
    \E i \in Tasks :
        /\ IsReceipt(i) /\ pc[i] = "done" /\ ~ResendThrew(i)
        /\ ReceiptIds(stanzas[i]) = <<"B", "A">>
        /\ msgs[i].avail = {"A"}
        /\ Relays(i, "A") = 1 /\ Relays(i, "B") = 0
        /\ msgRetryMap["B"] = 0 /\ msgRetryMap["A"] = 1
        /\ Count(i, "ack") = 1

----------------------------------------------------------------------------
(* C16: when the transaction of sendRetryRequest fails (getNextPreKeys or  *)
(* sendNode throws), no receipt is logged as sent and no creds.update is   *)
(* emitted, the counter keeps its incremented value, the error is logged   *)
(* once by the retry task and nothing reaches onUnexpectedError, and the   *)
(* messages.upsert of the message was emitted all the same.                *)
RetryFailed(i) == rpc[i] = "failed"

Logged(i, kind, text) == Cardinality({k \in Positions(i, kind) : fx[i][k].arg = text})

C16_FailedTransaction ==
    /\ [](\A i \in Tasks :
            RetryFailed(i) =>
                /\ Count(i, "creds.update") = 0
                /\ Logged(i, "logger.info", "sent retry receipt") = 0
                /\ Logged(i, "logger.error", "error when retrying request") = 1
                /\ Count(i, "onUnexpectedError") = 0
                /\ Count(i, "messages.upsert") = 1
                /\ Before(i, "messages.upsert", "logger.error"))
    /\ [][\A i \in Tasks :
             (~RetryFailed(i) /\ RetryFailed(i)')
             => /\ msgRetryMap' = msgRetryMap
                /\ msgRetryMap[stanzas[i].id] = rcount[i] + 1
                /\ sockFx' = sockFx
                /\ pc' = pc]_vars

C16_Witness ==
    \E i \in Tasks, j \in Tasks :
        /\ i # j /\ stanzas[i].id = stanzas[j].id
        /\ RetryFailed(i) /\ rcount[i] = 1 /\ Count(i, "retry") = 0
        /\ pc[i] = "done" /\ Count(i, "messages.upsert") = 1
        /\ rpc[j] = "done" /\ rcount[j] = 2
        /\ Count(j, "retry") = 1 /\ Count(j, "creds.update") = 1

----------------------------------------------------------------------------
(* C17: the ack of a notification stanza is the first thing its handler    *)
(* sends or emits, before chats.upsert, groups.upsert,                     *)
(* messages.media-update, messages.upsert and the call of uploadPreKeys;   *)
(* it is sent once, also when the interpretation fails.                    *)
DerivedKinds ==
    {"chats.upsert", "groups.upsert", "messages.media-update", "messages.upsert",
     "uploadPreKeys"}

Derived(i) == {k \in 1..Len(fx[i]) : fx[i][k].kind \in DerivedKinds}

C17_NotificationAckFirst ==
    \A i \in Tasks :
        stanzas[i].tag = "notification" =>
            /\ fx[i] # <<>>
            /\ fx[i][1] = sendMessageAck(i, none)
            /\ Positions(i, "ack") = {1}
            /\ \A k \in Derived(i) : k > 1
            /\ Count(i, "onUnexpectedError") > 0 => (pc[i] = "done" /\ Derived(i) = {})

C17_Witness ==
    \E i \in Tasks, j \in Tasks :
        /\ stanzas[i].tag = "notification" /\ stanzas[i].child = "create"
        /\ pc[i] = "done"
        /\ Len(fx[i]) = 4 /\ Derived(i) = {2, 3, 4}
        /\ stanzas[j].tag = "notification" /\ pc[j] = "done"
        /\ Count(j, "onUnexpectedError") = 1 /\ Count(j, "ack") = 1

----------------------------------------------------------------------------
(* C18: the processing mutex keeps a stanza waiting only behind earlier    *)
(* stanzas of its own chat: the tasks queued under a key are the           *)
(* unfinished stanzas of that chat in arrival order, and a message stanza  *)
(* that has not got the mutex has an earlier unfinished stanza of the same *)
(* chat before it.  A stanza of another chat goes through while the first  *)
(* still awaits its decryption.                                            *)
Waiting(j) ==
    IsMessage(j) /\ pc[j] = "queued" /\ ~MutexHolds(procQ[MsgRemoteJid(stanzas[j])], j)

C18_OnlySameChatWaits ==
    /\ \A j \in Tasks :
          Waiting(j) => \E i \in Tasks : SameChatInOrder(i, j) /\ pc[i] # "done"
    /\ \A key \in Chats : \A p \in 1..Len(procQ[key]) :
          /\ MsgRemoteJid(stanzas[procQ[key][p]]) = key
          /\ pc[procQ[key][p]] # "done"
          /\ \A q \in 1..Len(procQ[key]) : p < q => procQ[key][p] < procQ[key][q]

C18_Witness ==
    \E i \in Tasks, j \in Tasks :
        /\ i < j /\ IsMessage(i) /\ IsMessage(j)
        /\ MsgRemoteJid(stanzas[i]) # MsgRemoteJid(stanzas[j])
        /\ pc[i] = "decrypt" /\ dec[i] = "pending"
        /\ pc[j] = "done" /\ dec[j] = "ok"
        /\ Count(j, "ack") = 1 /\ Count(j, "sendReceipt") = 1
        /\ Count(j, "messages.upsert") = 1

----------------------------------------------------------------------------
(* C19 *)

(* stanza i is in no queue of the keyed mutex of message intake *)
Released(i) ==
    \A key \in Chats : \A p \in 1..Len(procQ[key]) : procQ[key][p] # i

----------------------------------------------------------------------------
(* C20 *)

(* the step is the start of sendRetryRequest for message stanza i and      *)
(* writes msgRetryMap                                                      *)
RetryMutates(i) ==
    IsMessage(i) /\ rpc[i] = "queued" /\ rpc'[i] # "queued" /\ msgRetryMap' # msgRetryMap

(* the step is a turn of the loop of sendMessagesAgain for receipt stanza  *)
(* i and writes msgRetryMap                                                *)
ResendMutates(i) == LoopTurn(i) /\ msgRetryMap' # msgRetryMap

(* C20, as stated, its first half: a retry task writes msgRetryMap while   *)
(* its stanza holds the processing mutex of its chat                       *)
C20_StatedIntakeHalf ==
    [][\A i \in Tasks :
          RetryMutates(i) => MutexHolds(procQ[MsgRemoteJid(stanzas[i])], i)]_vars

(* C20, as stated, its second half: a resend writes msgRetryMap while the  *)
(* retry mutex is held, by whatever task                                   *)
C20_StatedReceiptHalf ==
    [][\A i \in Tasks : ResendMutates(i) => retryQ # <<>>]_vars

(* C20, as stated: a retry task writes msgRetryMap while its stanza holds  *)
(* the processing mutex of its chat, and a resend writes it while the      *)
(* retry mutex is held.                                                    *)
C20_StatedMutexes == C20_StatedIntakeHalf /\ C20_StatedReceiptHalf

(* C20, amended: msgRetryMap is written by the retry task of a message     *)
(* stanza and by the resend of a receipt stanza only; the retry task       *)
(* writes it while it holds the retry mutex, its handler having returned   *)
(* and left the processing mutex of the chat; the resend writes it while   *)
(* the handler of the receipt holds the processing mutex of the chat of    *)
(* the receipt.                                                            *)
C20_MutexesOfTheWriters ==
    [][/\ msgRetryMap' # msgRetryMap
          => \E i \in Tasks : RetryMutates(i) \/ ResendMutates(i)
       /\ \A i \in Tasks :
             /\ RetryMutates(i)
                => /\ MutexHolds(retryQ, i)
                   /\ pc[i] = "done"
                   /\ Released(i)
             /\ ResendMutates(i)
                => MutexHolds(procQ[ReceiptRemoteJid(stanzas[i])], i)]_vars

(* C20 witness: a retry task has bumped the counter and holds the retry    *)
(* mutex, its stanza out of the processing mutex, while a resend has       *)
(* bumped a counter under the processing mutex of the chat of its receipt  *)
C20_Witness ==
    \E i, j \in Tasks :
        /\ IsMessage(i) /\ rpc[i] = "tx"
        /\ MutexHolds(retryQ, i) /\ Released(i)
        /\ msgRetryMap[stanzas[i].id] = rcount[i] + 1
        /\ IsReceipt(j) /\ pc[j] = "relayMessage"
        /\ Count(j, "relayMessage") = 1
        /\ MutexHolds(procQ[ReceiptRemoteJid(stanzas[j])], j)

----------------------------------------------------------------------------
(* C21 *)

IsCall(i) == stanzas[i].tag = "call"

(* the call stanzas for callId received before stanza n *)
CallsBefore(n, callId) == {k \in 1..(n - 1) : IsCall(k) /\ stanzas[k].callId = callId}

(* the offers for callId received before stanza n with no reject, accept   *)
(* or timeout for it since                                                 *)
LiveOffers(n, callId) ==
    {k \in CallsBefore(n, callId) :
        /\ stanzas[k].child = "offer"
        /\ \A m \in CallsBefore(n, callId) : m > k => stanzas[m].child \notin Terminal}

(* the last of a non-empty set of stanzas *)
LastOf(S) == CHOOSE k \in S : \A m \in S : m <= k

(* the call event of stanza i *)
CallOf(i) == fx[i][1].arg

(* C21: the cache holds an entry for a callId exactly when an offer for it *)
(* was received with no reject, accept or timeout for it since, and the    *)
(* entry has the isVideo and isGroup of the last such offer; the call      *)
(* event of a reject, accept or timeout that ends a cached offer carries   *)
(* the isVideo and isGroup of that offer.                                  *)
C21_CacheFollowsOffers ==
    /\ \A callId \in CallIds :
          /\ Offers(callOfferData, callId) # {} <=> LiveOffers(N + 1, callId) # {}
          /\ LiveOffers(N + 1, callId) # {}
             => Offers(callOfferData, callId) =
                  {[id |-> callId,
                    isVideo |-> stanzas[LastOf(LiveOffers(N + 1, callId))].video,
                    isGroup |-> stanzas[LastOf(LiveOffers(N + 1, callId))].group]}
    /\ \A i \in Tasks :
          (IsCall(i) /\ stanzas[i].child \in Terminal
              /\ LiveOffers(i, stanzas[i].callId) # {})
          => /\ fx[i] # <<>> /\ fx[i][1].kind = "call"
             /\ CallOf(i).status = stanzas[i].child
             /\ CallOf(i).isVideo = stanzas[LastOf(LiveOffers(i, stanzas[i].callId))].video
             /\ CallOf(i).isGroup = stanzas[LastOf(LiveOffers(i, stanzas[i].callId))].group

(* C21 witness: a video offer was ended by a later stanza whose call event *)
(* says isVideo, and the cache no longer holds the call                    *)
C21_Witness ==
    \E i, j \in Tasks :
        /\ i < j
        /\ IsCall(i) /\ stanzas[i].child = "offer" /\ stanzas[i].video
        /\ IsCall(j) /\ stanzas[j].callId = stanzas[i].callId
        /\ stanzas[j].child \in Terminal
        /\ CallOf(j).isVideo
        /\ Offers(callOfferData, stanzas[j].callId) = {}

----------------------------------------------------------------------------
(* C22 *)

(* the connection.update events received that define isOnline *)
DefinedUpdates == {k \in 1..Len(updates) : "isOnline" \in DOMAIN updates[k]}

(* the step sends the delivery receipt of message stanza i *)
SendsReceipt(i) ==
    IsMessage(i) /\ Count(i, "sendReceipt")' = Count(i, "sendReceipt") + 1

(* C22: sendActiveReceipts is false until a connection.update defines      *)
(* isOnline and then is the isOnline of the last update that defined it;   *)
(* a delivery receipt is sent for a decrypted message only, and its type   *)
(* is peer_msg for category peer, else sender for a message from us, else  *)
(* inactive if sendActiveReceipts is false when it is sent, else absent.   *)
C22_ReceiptTypeAndOnline ==
    /\ [](sendActiveReceipts =
            IF DefinedUpdates = {} THEN FALSE
            ELSE updates[LastOf(DefinedUpdates)].isOnline)
    /\ [][\A i \in Tasks :
             SendsReceipt(i)
                => /\ dec[i] = "ok"
                   /\ fx'[i][Len(fx'[i])] =
                        Fx("sendReceipt",
                           IF stanzas[i].category = "peer" THEN "peer_msg"
                           ELSE IF stanzas[i].fromMe THEN "sender"
                           ELSE IF sendActiveReceipts = FALSE THEN "inactive"
                           ELSE none)]_vars

(* C22 witness: after an update with isOnline true and one without         *)
(* isOnline, a plain message got a receipt with no type; an earlier one    *)
(* got an inactive receipt                                                 *)
C22_Witness ==
    /\ updates = <<[isOnline |-> TRUE], [connection |-> "open"]>>
    /\ sendActiveReceipts
    /\ \E i, j \in Tasks :
          /\ IsMessage(i) /\ IsMessage(j)
          /\ stanzas[i].category = none /\ ~stanzas[i].fromMe
          /\ stanzas[j] = stanzas[i]
          /\ \E k \in Positions(i, "sendReceipt") : fx[i][k].arg = "inactive"
          /\ \E k \in Positions(j, "sendReceipt") : fx[j][k].arg = none

----------------------------------------------------------------------------
(* C23 *)

(* the step is taken by the handler of message stanza i, or settles its    *)
(* decryption                                                              *)
HandlerStep(i) == IsMessage(i) /\ (pc'[i] # pc[i] \/ dec'[i] # dec[i])

(* the step starts sendRetryRequest for message stanza i *)
RetryStarts(i) == IsMessage(i) /\ rpc[i] = "queued" /\ rcount'[i] # rcount[i]

(* C23: no step of the handler of a message that decrypts writes the retry *)
(* counter map, and such a message has no retry task; the map is written   *)
(* by the retry task of a message that failed to decrypt only, which       *)
(* starts from the counter stored for the id, and from 1 if none is.       *)
C23_DecryptedLeavesCounters ==
    /\ [](\A i \in Tasks : (IsMessage(i) /\ dec[i] = "ok") => rpc[i] = "none")
    /\ [][/\ \A i \in Tasks :
                (HandlerStep(i) /\ dec'[i] = "ok") => msgRetryMap' = msgRetryMap
          /\ msgRetryMap' # msgRetryMap
                => \E i \in Tasks : dec[i] = "fail" /\ rpc[i] = "queued" /\ rpc'[i] # "queued"
          /\ \A i \in Tasks :
                RetryStarts(i)
                   => rcount'[i] = IF msgRetryMap[stanzas[i].id] = 0 THEN 1
                                   ELSE msgRetryMap[stanzas[i].id]]_vars

(* C23 witness: the counter of the id stood at 4; a message of that id was *)
(* decrypted and handled to the end; a later message of the same id failed *)
(* and its retry request starts from 4                                     *)
C23_Witness ==
    \E i, j \in Tasks :
        /\ i < j
        /\ IsMessage(i) /\ IsMessage(j)
        /\ stanzas[i].id = stanzas[j].id
        /\ dec[i] = "ok" /\ pc[i] = "done"
        /\ dec[j] = "fail" /\ rpc[j] = "tx"
        /\ rcount[j] = 4
        /\ msgRetryMap[stanzas[j].id] = 5

----------------------------------------------------------------------------
(* C24 *)

(* the chats passed to the resyncMainAppState calls made so far *)
Resynced ==
    UNION {sockFx[k].arg : k \in {n \in 1..Len(sockFx) : sockFx[n].kind = "resyncMainAppState"}}

(* C24, as stated: while the transport is open, a chat that a step removes *)
(* from recvChats was passed to a resyncMainAppState call before, and an   *)
(* id the step removes from historyCache is of a history message whose     *)
(* chat was; so what was recorded while a call was in flight outlives the  *)
(* clear that follows the call.                                            *)
C24_ClearedEntriesWereSynced ==
    [][wsOpen
          => /\ (recvChats \ recvChats') \subseteq Resynced
             /\ \A id \in historyCache \ historyCache' :
                   \E i \in Tasks :
                       /\ stanzas[i].id = id
                       /\ isAnyHistoryMsg(i)
                       /\ ppc[i] \in {"processing", "done"}
                       /\ UpsertChat(i) \in Resynced]_vars

----------------------------------------------------------------------------
(* C25 *)

(* the step emits the messages.upsert of stanza i *)
Upserts(i) == Count(i, "messages.upsert")' = Count(i, "messages.upsert") + 1

(* C25: after any step, a message stanza whose decryption failed has got   *)
(* no delivery receipt; once its handler has returned it got one ack and   *)
(* then one                                                                *)
(* messages.upsert, and never more than one; and when the upsert is        *)
(* emitted the retry task has only been queued: no retry receipt is out,   *)
(* which comes after the upsert if it comes.                               *)
C25_FailedMessageStillUpserted ==
    [][/\ \A i \in Tasks :
             (IsMessage(i) /\ dec'[i] = "fail")
                => /\ Count(i, "sendReceipt")' = 0
                   /\ Count(i, "messages.upsert")' <= 1
                   /\ Before(i, "ack", "messages.upsert")'
                   /\ Before(i, "messages.upsert", "retry")'
                   /\ pc'[i] = "done"
                      => (Count(i, "ack")' = 1 /\ Count(i, "messages.upsert")' = 1)
       /\ \A i \in Tasks :
             (IsMessage(i) /\ dec[i] = "fail" /\ Upserts(i))
                => /\ Count(i, "ack") = 1
                   /\ rpc[i] = "none" /\ rpc'[i] = "queued"
                   /\ Count(i, "retry")' = 0
                   /\ pc'[i] = "done"]_vars

(* C25 witness: the handler of a failed message has returned with its ack  *)
(* and its upsert out while its retry task still waits for the retry mutex *)
(* behind the transaction of another stanza                                *)
C25_Witness ==
    \E i, j \in Tasks :
        /\ i # j
        /\ IsMessage(i) /\ dec[i] = "fail" /\ pc[i] = "done"
        /\ Count(i, "ack") = 1 /\ Count(i, "messages.upsert") = 1
        /\ Count(i, "sendReceipt") = 0 /\ Count(i, "retry") = 0
        /\ rpc[i] = "queued" /\ ~MutexHolds(retryQ, i)
        /\ rpc[j] = "tx" /\ MutexHolds(retryQ, j)

====
